---- MODULE Spec2Model ----
(***************************************************************************)
(* TraceBridge AI: the vector store (SimpleVectorStore) of                 *)
(* backend/app/services/vector_store.py, with its pickle snapshot, and the *)
(* text chunker (chunk_text) of backend/app/services/chunker.py and of     *)
(* app/services/chunker.py, chunk_document, the id extractors of           *)
(* backend/app/services/metadata_extractor.py, and the services on the     *)
(* store (index_chunks, delete_document, list_documents, query_chunks)     *)
(* with the upload and delete handlers of backend/app/routers/documents.py.*)
(*                                                                         *)
(* documents and embeddings are Python dicts that the code only looks up   *)
(* by key, so they are functions from ids; metadatas is the dict the code  *)
(* iterates, so it is kept in insertion order as a sequence of [k, v].     *)
(***************************************************************************)
EXTENDS Integers, Sequences, FiniteSets, TLC

VARIABLES
    documents,   \* self.documents: id -> text
    embeddings,  \* self.embeddings: id -> vector
    metadatas,   \* self.metadatas: id -> metadata, in insertion order
    disk,        \* the snapshot file vector_store.pkl under persist_path
    last,        \* the last call made on the store and how it ended
    faults,      \* the failing calls made so far (see MaxFaults)
    variant,     \* which chunker.py runs: "backend" or "app"
    input,       \* chunk_text: the text it was called with
    text,        \* chunk_text: text (stripped once the guards are passed)
    chunk_size,  \* chunk_text: chunk_size
    chunk_overlap, \* chunk_text: chunk_overlap
    start,       \* chunk_text: start, a 0-based offset into text
    chunks,      \* chunk_text: chunks
    windows,     \* the windows [start, end) cut so far, one per turn of the loop
    pc,          \* chunk_text: where the call stands
    doc,         \* chunk_document: doc.pages, the parsed pages
    doc_id,      \* chunk_document: doc_id
    all_chunks,  \* chunk_document: the chunks it returned
    doc_pc,      \* chunk_document: where the call stands
    family,      \* the extractor called: requirement, test_case or risk
    source,      \* the extractor: the text it was called with
    detected,    \* the extractor: the list it returned
    ext_pc,      \* the extractor: where the call stands
    issued,      \* upload_document: the calls of uuid.uuid4() made so far
    removed      \* the chunk ids delete_document took out of the store so far

\* the state of the store
storeVars == <<documents, embeddings, metadatas, disk, last, faults>>

\* the state of a call of chunk_text
chunkVars == <<variant, input, text, chunk_size, chunk_overlap, start, chunks,
               windows, pc>>

\* the state of a call of chunk_document
docVars == <<doc, doc_id, all_chunks, doc_pc>>

\* the state of a call of an extractor of metadata_extractor.py
extractVars == <<family, source, detected, ext_pc>>

\* the state of the upload and delete handlers of routers/documents.py
uploadVars == <<issued, removed>>

pipelineVars == <<docVars, extractVars, uploadVars>>

vars == <<documents, embeddings, metadatas, disk, last, faults,
          variant, input, text, chunk_size, chunk_overlap, start, chunks,
          windows, pc, doc, doc_id, all_chunks, doc_pc, family, source,
          detected, ext_pc, issued, removed>>

store == <<documents, embeddings, metadatas>>

(* ------------------------------ bounds --------------------------------- *)

\* longest batch handed to add
MaxBatch == 2
\* largest n_results handed to query
MaxK == 2
\* failing calls (write faults, malformed batches) in one run
MaxFaults == 1

(* ------------------------------ values --------------------------------- *)

Ids == {"a", "b", "c"}

\* a metadata or filter value: a scalar s is <<s>> with isList FALSE
Scalar(s) == [isList |-> FALSE, items |-> <<s>>]

ListOf(seq) == [isList |-> TRUE, items |-> seq]

MX == [doc_id |-> Scalar("X"), standards_referenced |-> ListOf(<<"ISO 10993", "IEC 62304">>)]

MY == [doc_id |-> Scalar("Y"), standards_referenced |-> ListOf(<<"ISO 13485">>)]

MZ == [doc_id |-> Scalar("X")]

\* the records a caller may hand to add: id, text, embedding, metadata
Records ==
    { [id |-> "a", doc |-> "t1", emb |-> <<1, 0>>, meta |-> MX],
      [id |-> "b", doc |-> "t2", emb |-> <<0, 1>>, meta |-> MY],
      [id |-> "c", doc |-> "t3", emb |-> <<1, 0>>, meta |-> MX],
      [id |-> "a", doc |-> "t4", emb |-> <<2, 0>>, meta |-> MZ] }

\* the records of the runs that exercise persistence: two ids, one of them
\* with two versions
PersistRecords == { r \in Records : r.id \in {"a", "b"} }

\* the records of the runs that exercise the reads: three ids
ReadRecords == { r \in Records : r.doc \in {"t1", "t2", "t3"} }

\* the empty dict
EmptyDict == [x \in {} |-> ""]

\* the filters a caller may pass (where); given = FALSE is where=None
NoFilter == [given |-> FALSE, cond |-> EmptyDict]

Where(c) == [given |-> TRUE, cond |-> c]

Filters ==
    { NoFilter,
      Where(EmptyDict),
      Where([doc_id |-> Scalar("X")]),
      Where([doc_id |-> Scalar("Y")]),
      Where([standards_referenced |-> Scalar("ISO 10993")]),
      Where([standards_referenced |-> Scalar("ISO 13485")]),
      Where([standards_referenced |-> ListOf(<<"ISO 10993", "IEC 62304">>)]),
      Where([doc_id |-> Scalar("X"), standards_referenced |-> Scalar("IEC 62304")]) }

\* the filters handed to query
QueryFilters ==
    { NoFilter,
      Where([doc_id |-> Scalar("X")]),
      Where([standards_referenced |-> Scalar("ISO 13485")]) }

QueryVectors == { <<1, 0>>, <<0, 1>> }

(* ------------------------- ordered dict helpers ------------------------ *)

Keys(d) == { d[i].k : i \in DOMAIN d }

Lookup(d, key) == d[CHOOSE i \in DOMAIN d : d[i].k = key].v

\* d[key] = value on an insertion-ordered dict: in place, or at the end
PutOrdered(d, key, value) ==
    IF key \in Keys(d)
    THEN [i \in DOMAIN d |-> IF d[i].k = key THEN [k |-> key, v |-> value] ELSE d[i]]
    ELSE Append(d, [k |-> key, v |-> value])

DelOrdered(d, key) == SelectSeq(d, LAMBDA e : e.k # key)

Put(d, key, value) == [x \in (DOMAIN d) \cup {key} |-> IF x = key THEN value ELSE d[x]]

Del(d, key) == [x \in (DOMAIN d) \ {key} |-> d[x]]

Min(x, y) == IF x <= y THEN x ELSE y

(* ------------------------------ snapshot ------------------------------- *)

SnapshotKeys == {"documents", "embeddings", "metadatas"}

NoFile == [kind |-> "missing", keys |-> {}, documents |-> EmptyDict,
           embeddings |-> EmptyDict, metadatas |-> <<>>]

\* a file pickle.load cannot decode (a write cut short, foreign bytes)
Garbage == [NoFile EXCEPT !.kind = "garbage"]

\* a pickle of something that is no dict
NotAMapping == [NoFile EXCEPT !.kind = "nonmap"]

\* pickle.dump of the dict of the three mappings
Dump(d, e, m) ==
    [kind |-> "map", keys |-> SnapshotKeys, documents |-> d, embeddings |-> e,
     metadatas |-> m]

\* _load that forgets the metadatas of the snapshot
LoadWithoutMetadatas(snap) ==
    IF snap.kind = "map"
    THEN [documents  |-> IF "documents" \in snap.keys THEN snap.documents ELSE EmptyDict,
          embeddings |-> IF "embeddings" \in snap.keys THEN snap.embeddings ELSE EmptyDict,
          metadatas  |-> <<>>]
    ELSE [documents |-> EmptyDict, embeddings |-> EmptyDict, metadatas |-> <<>>]

\* _load on a freshly constructed (empty) store
Load(snap) ==
    IF snap.kind = "map"
    THEN [documents  |-> IF "documents" \in snap.keys THEN snap.documents ELSE EmptyDict,
          embeddings |-> IF "embeddings" \in snap.keys THEN snap.embeddings ELSE EmptyDict,
          metadatas  |-> IF "metadatas" \in snap.keys THEN snap.metadatas ELSE <<>>]
    ELSE [documents |-> EmptyDict, embeddings |-> EmptyDict, metadatas |-> <<>>]

\* what can go wrong in _save: os.makedirs, open(.., "wb"), pickle.dump
SaveFaults == {"none", "mkdir", "open", "dump"}

\* _save that writes nothing
SaveDiskSkipped(f, d, e, m, old) == IF f = "dump" THEN Garbage ELSE old

\* the file after _save: written whole, left alone, or cut short
SaveDisk(f, d, e, m, old) ==
    CASE f = "none"  -> Dump(d, e, m)
      [] f = "mkdir" -> old
      [] f = "open"  -> old
      [] f = "dump"  -> Garbage

\* os.makedirs stands before the try: its error leaves _save
SaveRaised(f) == IF f = "mkdir" THEN "OSError" ELSE ""

(* ------------------------------- history ------------------------------- *)

\* the last call: its name, arguments and outcome
NoCall ==
    [op |-> "", raised |-> "", fault |-> "none", where |-> NoFilter,
     q |-> <<0, 0>>, k |-> 0, ids |-> <<>>, dists |-> <<>>, count |-> 0,
     malformed |-> FALSE, changed |-> FALSE, diskChanged |-> FALSE,
     afterSave |-> FALSE, doc |-> <<>>, standard |-> "", listed |-> <<>>,
     exists |-> FALSE]

(* --------------------------------- add --------------------------------- *)

Prefix(seq, n) == SubSeq(seq, 1, Min(n, Len(seq)))

\* the four parallel lists of a batch, cut to the given lengths
Batch(recs, lens) ==
    [ids        |-> Prefix([i \in DOMAIN recs |-> recs[i].id], lens[1]),
     documents  |-> Prefix([i \in DOMAIN recs |-> recs[i].doc], lens[2]),
     embeddings |-> Prefix([i \in DOMAIN recs |-> recs[i].emb], lens[3]),
     metadatas  |-> Prefix([i \in DOMAIN recs |-> recs[i].meta], lens[4])]

\* one of the four lists one element short
ShortLengths(n) ==
    IF n = 0 THEN {}
    ELSE {<<n - 1, n, n, n>>, <<n, n - 1, n, n>>, <<n, n, n - 1, n>>, <<n, n, n, n - 1>>}

\* batches of equal lengths
WellFormedInputs(pool) ==
    UNION { { Batch(recs, <<n, n, n, n>>) : recs \in [1..n -> pool] } :
            n \in 0..MaxBatch }

\* batches of unequal lengths
MalformedInputs(pool) ==
    UNION { { Batch(recs, lens) : recs \in [1..n -> pool], lens \in ShortLengths(n) } :
            n \in 0..MaxBatch }

\* the write faults open to the environment
Faults(mayFail) == IF mayFail THEN SaveFaults ELSE {"none"}

\* the calls of add open to the caller: a failing one only while the run may fail
AddCalls(pool, mayFail) ==
    { <<args, "none">> : args \in WellFormedInputs(pool) } \cup
    (IF mayFail
     THEN { <<args, "none">> : args \in MalformedInputs(pool) } \cup
          (WellFormedInputs(pool) \X (SaveFaults \ {"none"}))
     ELSE {})

Malformed(args) ==
    ~ (/\ Len(args.ids) = Len(args.documents)
       /\ Len(args.ids) = Len(args.embeddings)
       /\ Len(args.ids) = Len(args.metadatas))

\* one turn of a loop that keeps the record of an id already in documents
AddOneKeepsStored(st, args, i) ==
    LET id == args.ids[i]
    IN IF id \in DOMAIN st.documents THEN st
       ELSE IF i > Len(args.documents) \/ i > Len(args.embeddings)
               \/ i > Len(args.metadatas)
       THEN [st EXCEPT !.raised = "IndexError"]
       ELSE [st EXCEPT !.documents = Put(@, id, args.documents[i]),
                       !.embeddings = Put(@, id, args.embeddings[i]),
                       !.metadatas = PutOrdered(@, id, args.metadatas[i])]

\* one turn of the loop of add: three assignments, each list indexed in turn
\* (documents[i], embeddings[i], metadatas[i] raise IndexError past the end)
AddOne(st, args, i) ==
    LET id == args.ids[i]
    IN IF i > Len(args.documents) THEN [st EXCEPT !.raised = "IndexError"]
       ELSE IF i > Len(args.embeddings)
       THEN [st EXCEPT !.documents = Put(@, id, args.documents[i]),
                       !.raised = "IndexError"]
       ELSE IF i > Len(args.metadatas)
       THEN [st EXCEPT !.documents = Put(@, id, args.documents[i]),
                       !.embeddings = Put(@, id, args.embeddings[i]),
                       !.raised = "IndexError"]
       ELSE [st EXCEPT !.documents = Put(@, id, args.documents[i]),
                       !.embeddings = Put(@, id, args.embeddings[i]),
                       !.metadatas = PutOrdered(@, id, args.metadatas[i])]

\* for i, id in enumerate(ids), from index i on, until an exception
RECURSIVE AddLoop(_, _, _)
AddLoop(st, args, i) ==
    IF i > Len(args.ids) \/ st.raised # "" THEN st
    ELSE AddLoop(AddOne(st, args, i), args, i + 1)

Add(args, f) ==
    LET r == AddLoop([documents |-> documents, embeddings |-> embeddings,
                      metadatas |-> metadatas, raised |-> ""], args, 1)
        newDisk == IF r.raised = "" 
                   THEN SaveDisk(f, r.documents, r.embeddings, r.metadatas, disk)
                   ELSE disk
    IN /\ documents' = r.documents
       /\ embeddings' = r.embeddings
       /\ metadatas' = r.metadatas
       /\ disk' = newDisk
       /\ faults' = IF Malformed(args) \/ f # "none" THEN faults + 1 ELSE faults
       /\ last' = [NoCall EXCEPT
                     !.op = "add",
                     !.raised = IF r.raised # "" THEN r.raised ELSE SaveRaised(f),
                     !.fault = f,
                     !.malformed = Malformed(args),
                     !.changed = (<<r.documents, r.embeddings, r.metadatas>> # store),
                     !.diskChanged = (newDisk # disk)]
       /\ UNCHANGED chunkVars
       /\ UNCHANGED pipelineVars

(* ------------------------------- filter -------------------------------- *)

\* the filter by equality alone: all(metadata.get(k) == v ...), no list fields
MatchesByEquality(metadata, cond) ==
    \A key \in DOMAIN cond : key \in DOMAIN metadata /\ metadata[key] = cond[key]

\* _matches_filter(metadata, where)
MatchesFilter(metadata, cond) ==
    \A key \in DOMAIN cond :
        /\ key \in DOMAIN metadata
        /\ LET meta_value == metadata[key]
               value == cond[key]
           IN IF meta_value.isList
              THEN \E i \in DOMAIN meta_value.items : Scalar(meta_value.items[i]) = value
              ELSE meta_value = value

\* where is None or self._matches_filter(metadata, where)
Selected(metadata, where) == (~ where.given) \/ MatchesFilter(metadata, where.cond)

\* the ids of metadatas, in iteration order, that the filter selects
Candidates(m, where) ==
    LET hit == SelectSeq(m, LAMBDA e : Selected(e.v, where))
    IN [i \in DOMAIN hit |-> hit[i].k]

(* --------------------------------- get --------------------------------- *)

\* get that ignores its filter
GetIdsUnfiltered(m, where) == [i \in DOMAIN m |-> m[i].k]

GetIds(m, where) == Candidates(m, where)

Get(where) ==
    /\ last' = [NoCall EXCEPT !.op = "get", !.where = where,
                              !.ids = GetIds(metadatas, where)]
    /\ UNCHANGED <<documents, embeddings, metadatas, disk, faults>>
    /\ UNCHANGED chunkVars
    /\ UNCHANGED pipelineVars

(* -------------------------------- query -------------------------------- *)

\* 1e-8, as its inverse
EpsInv == 100000000

Dot(u, v) == u[1] * v[1] + u[2] * v[2]

\* np.linalg.norm, on the vectors of the model (all of integer length)
Norm(v) == CHOOSE n \in 0..Dot(v, v) : n * n = Dot(v, v)

\* the cosine distance 1 - dot / (n + 1e-8), kept as the pair (dot, n)
Dist(q, emb) == [dot |-> Dot(q, emb), n |-> Norm(q) * Norm(emb)]

\* d1 < d2 as numbers: dot1 / (n1 + eps) > dot2 / (n2 + eps)
DistLess(d1, d2) ==
    (d1.dot * d2.n - d2.dot * d1.n) * EpsInv + (d1.dot - d2.dot) > 0

\* where list.sort puts x in a sorted list: after every element not greater
InsertByDist(sorted, x) ==
    LET later == {i \in DOMAIN sorted : DistLess(x.dist, sorted[i].dist)}
        p == IF later = {} THEN Len(sorted) + 1
             ELSE CHOOSE i \in later : \A j \in later : i <= j
    IN SubSeq(sorted, 1, p - 1) \o <<x>> \o SubSeq(sorted, p, Len(sorted))

\* query without its sort
SortSkipped(seq) == seq

\* distances.sort(key=lambda x: x[1]): stable
RECURSIVE SortByDist(_)
SortByDist(seq) ==
    IF seq = <<>> THEN <<>>
    ELSE InsertByDist(SortByDist(SubSeq(seq, 1, Len(seq) - 1)), seq[Len(seq)])

\* distances[:n_results], n_results >= 0
TopResults(sorted, n_results) == Prefix(sorted, n_results)

\* query without its two early returns: no candidate is looked up as one
QueryResultWithoutEarlyReturn(q, n_results, where) ==
    LET candidates == Candidates(metadatas, where)
    IN IF candidates = <<>> \/ \E i \in DOMAIN candidates : candidates[i] \notin DOMAIN embeddings
       THEN [raised |-> "KeyError", top |-> <<>>]
       ELSE LET distances == [i \in DOMAIN candidates |->
                                 [id |-> candidates[i],
                                  dist |-> Dist(q, embeddings[candidates[i]])]]
            IN [raised |-> "", top |-> TopResults(SortByDist(distances), n_results)]

QueryResult(q, n_results, where) ==
    LET candidates == Candidates(metadatas, where)
    IN IF DOMAIN embeddings = {} \/ candidates = <<>>
       THEN [raised |-> "", top |-> <<>>]
       ELSE IF \E i \in DOMAIN candidates : candidates[i] \notin DOMAIN embeddings
       THEN [raised |-> "KeyError", top |-> <<>>]
       ELSE LET distances == [i \in DOMAIN candidates |->
                                 [id |-> candidates[i],
                                  dist |-> Dist(q, embeddings[candidates[i]])]]
            IN [raised |-> "", top |-> TopResults(SortByDist(distances), n_results)]

Query(q, n_results, where) ==
    LET r == QueryResult(q, n_results, where)
    IN /\ last' = [NoCall EXCEPT !.op = "query", !.where = where, !.q = q,
                                 !.k = n_results, !.raised = r.raised,
                                 !.ids = [i \in DOMAIN r.top |-> r.top[i].id],
                                 !.dists = [i \in DOMAIN r.top |-> r.top[i].dist]]
       /\ UNCHANGED <<documents, embeddings, metadatas, disk, faults>>
       /\ UNCHANGED chunkVars
       /\ UNCHANGED pipelineVars

(* -------------------------------- delete ------------------------------- *)

\* delete that leaves the embedding of a deleted record behind
DeleteOneKeepsEmbedding(st, id) ==
    IF id \notin DOMAIN st.documents THEN [st EXCEPT !.raised = "KeyError"]
    ELSE [st EXCEPT !.documents = Del(@, id), !.metadatas = DelOrdered(@, id)]

\* one turn of the second loop of delete: three del statements, each raising
\* KeyError on a missing key
DeleteOne(st, id) ==
    IF id \notin DOMAIN st.documents THEN [st EXCEPT !.raised = "KeyError"]
    ELSE IF id \notin DOMAIN st.embeddings
    THEN [st EXCEPT !.documents = Del(@, id), !.raised = "KeyError"]
    ELSE [st EXCEPT !.documents = Del(@, id),
                    !.embeddings = Del(@, id),
                    !.metadatas = DelOrdered(@, id)]

\* for id in to_delete, from index i on, until an exception
RECURSIVE DeleteLoop(_, _, _)
DeleteLoop(st, to_delete, i) ==
    IF i > Len(to_delete) \/ st.raised # "" THEN st
    ELSE DeleteLoop(DeleteOne(st, to_delete[i]), to_delete, i + 1)

Delete(where, f) ==
    LET to_delete == Candidates(metadatas, where)
        r == DeleteLoop([documents |-> documents, embeddings |-> embeddings,
                         metadatas |-> metadatas, raised |-> ""], to_delete, 1)
        newDisk == IF r.raised = ""
                   THEN SaveDisk(f, r.documents, r.embeddings, r.metadatas, disk)
                   ELSE disk
    IN /\ where.given
       /\ documents' = r.documents
       /\ embeddings' = r.embeddings
       /\ metadatas' = r.metadatas
       /\ disk' = newDisk
       /\ faults' = IF f # "none" THEN faults + 1 ELSE faults
       /\ last' = [NoCall EXCEPT
                     !.op = "delete",
                     !.where = where,
                     !.raised = IF r.raised # "" THEN r.raised ELSE SaveRaised(f),
                     !.fault = f,
                     !.count = Len(to_delete),
                     !.changed = (<<r.documents, r.embeddings, r.metadatas>> # store),
                     !.diskChanged = (newDisk # disk)]
       /\ UNCHANGED chunkVars
       /\ UNCHANGED pipelineVars

(* ------------------------------ construct ------------------------------ *)

\* SimpleVectorStore(persist_path) on the path of the running store
Construct ==
    LET r == Load(disk)
    IN /\ documents' = r.documents
       /\ embeddings' = r.embeddings
       /\ metadatas' = r.metadatas
       /\ last' = [NoCall EXCEPT
                     !.op = "construct",
                     !.afterSave = (/\ last.op \in {"add", "delete"}
                                    /\ last.raised = ""
                                    /\ last.fault = "none"),
                     !.changed = (<<r.documents, r.embeddings, r.metadatas>> # store)]
       /\ UNCHANGED <<disk, faults>>
       /\ UNCHANGED chunkVars
       /\ UNCHANGED pipelineVars

(* ---------------------------- initial state ---------------------------- *)

\* no call of chunk_text is under way
NoChunking ==
    /\ variant = "backend"
    /\ input = <<>>
    /\ text = <<>>
    /\ chunk_size = 1
    /\ chunk_overlap = 0
    /\ start = 0
    /\ chunks = <<>>
    /\ windows = <<>>
    /\ pc = "idle"

\* no call of chunk_document is under way
NoDocument ==
    /\ doc = <<>>
    /\ doc_id = <<>>
    /\ all_chunks = <<>>
    /\ doc_pc = "idle"

\* no call of an extractor is under way
NoExtraction ==
    /\ family = "requirement"
    /\ source = <<>>
    /\ detected = <<>>
    /\ ext_pc = "idle"

\* no upload was made and no chunk was removed
NoUploads ==
    /\ issued = 0
    /\ removed = {}

NoPipeline == NoDocument /\ NoExtraction /\ NoUploads

\* a store constructed on a path with no snapshot file
EmptyStore ==
    /\ documents = EmptyDict
    /\ embeddings = EmptyDict
    /\ metadatas = <<>>
    /\ disk = NoFile
    /\ faults = 0
    /\ last = [NoCall EXCEPT !.op = "construct"]

Init == EmptyStore /\ NoChunking /\ NoPipeline

\* the store and its snapshot: calls that write, write faults, restarts
Next ==
    \/ \E c \in AddCalls(PersistRecords, faults < MaxFaults) : Add(c[1], c[2])
    \/ \E where \in Filters \ {NoFilter}, f \in Faults(faults < MaxFaults) :
          Delete(where, f)
    \/ Construct

Spec == Init /\ [][Next]_vars

(* ------------------------- start from a snapshot ----------------------- *)

\* the files a store may be constructed on: none, an undecodable one, a
\* pickle of no dict, and a dict holding any of the three sub-mappings
StartSnapshots ==
    { NoFile, Garbage, NotAMapping } \cup
    { [Dump([x \in {"a"} |-> "t1"], [x \in {"a"} |-> <<1, 0>>],
            <<[k |-> "a", v |-> MX]>>) EXCEPT !.keys = ks] :
        ks \in SUBSET SnapshotKeys }

\* a store constructed on one of these files
InitLoad ==
    /\ disk \in StartSnapshots
    /\ documents = Load(disk).documents
    /\ embeddings = Load(disk).embeddings
    /\ metadatas = Load(disk).metadatas
    /\ faults = 0
    /\ last = [NoCall EXCEPT !.op = "construct"]
    /\ NoChunking
    /\ NoPipeline

SpecLoad == InitLoad /\ [][Next]_vars

\* the last call was a read
Observed == last.op \in {"get", "query"}

\* the store and its readers: calls that write (malformed ones too) and reads.
\* A read is the last call of a run: get and query leave the store, the
\* snapshot and the fault budget as they were, so the calls that may follow a
\* read are the calls that may follow the state it has read.
NextReads ==
    \/ /\ ~ Observed
       /\ \E c \in AddCalls(ReadRecords, faults < MaxFaults) :
             c[2] = "none" /\ Add(c[1], c[2])
    \/ /\ ~ Observed
       /\ \E where \in Filters \ {NoFilter} : Delete(where, "none")
    \/ /\ ~ Observed
       /\ \E where \in Filters : Get(where)
    \/ /\ ~ Observed
       /\ \E q \in QueryVectors, k \in 0..MaxK, where \in QueryFilters :
             Query(q, k, where)

SpecReads == Init /\ [][NextReads]_vars

(* ------------------------------ chunk_text ----------------------------- *)

\* longest text over all of Chars
MaxLen == 4
\* longest text of words and single spaces
MaxWordsLen == 10
\* largest chunk_size
MaxSize == 4
\* largest chunk_overlap
MaxOverlap == 4
\* longest tail of a text that is cut in wide windows
MaxTailLen == 5

\* the characters of the texts: a letter, the two kinds of whitespace, a
\* sentence end
Chars == {"a", " ", "\n", "."}

\* what str.strip() takes off
Whitespace == {" ", "\n"}

\* every text of at most MaxLen characters
ShortTexts == UNION { [1..n -> Chars] : n \in 0..MaxLen }

\* words of letters with single spaces between them, up to MaxWordsLen
WordTexts ==
    { t \in UNION { [1..n -> {"a", " "}] : n \in 1..MaxWordsLen } :
        /\ t[1] = "a"
        /\ t[Len(t)] = "a"
        /\ \A i \in 1..(Len(t) - 1) : ~ (t[i] = " " /\ t[i + 1] = " ") }

Texts == ShortTexts \cup WordTexts

\* three letters and then any characters: texts whose first window has its
\* second half in the tail
TailTexts ==
    { <<"a", "a", "a">> \o tail : tail \in UNION { [1..n -> Chars] : n \in 1..MaxTailLen } }

\* the chunk sizes wide enough for a boundary to shorten a window
WideSizes == (MaxSize + 1)..(MaxSize + 3)

\* the pairs (text, chunk_size) chunk_text is called with
ChunkCalls == (Texts \X (1..MaxSize)) \cup (TailTexts \X WideSizes)

Max(x, y) == IF x >= y THEN x ELSE y

\* a strip that takes off leading whitespace only
StripLeading(s) ==
    LET solid == { i \in DOMAIN s : s[i] \notin Whitespace }
    IN IF solid = {} THEN <<>>
       ELSE SubSeq(s, CHOOSE i \in solid : \A j \in solid : i <= j, Len(s))

\* s.strip()
Strip(s) ==
    LET solid == { i \in DOMAIN s : s[i] \notin Whitespace }
    IN IF solid = {} THEN <<>>
       ELSE SubSeq(s, CHOOSE i \in solid : \A j \in solid : i <= j,
                      CHOOSE i \in solid : \A j \in solid : j <= i)

\* a slice bound as Python reads it: from the end if negative, cut to 0..n
Bound(i, n) == IF i < 0 THEN Max(0, i + n) ELSE Min(i, n)

\* s[lo:hi], offsets counted from 0
Slice(s, lo, hi) == SubSeq(s, Bound(lo, Len(s)) + 1, Bound(hi, Len(s)))

\* s.rfind(sub, lo, hi): the highest offset at which sub lies whole inside
\* s[lo:hi], or -1
RFind(s, sub, lo, hi) ==
    LET hits == { i \in Bound(lo, Len(s))..(Bound(hi, Len(s)) - Len(sub)) :
                    SubSeq(s, i + 1, i + Len(sub)) = sub }
    IN IF hits = {} THEN -1
       ELSE CHOOSE i \in hits : \A j \in hits : j <= i

\* the sentence ends, in the order the loop tries them
Separators ==
    << <<".", " ">>, <<".", "\n">>, <<"!", " ">>, <<"!", "\n">>,
       <<"?", " ">>, <<"?", "\n">> >>

\* a cut at the sentence end furthest right, of whatever kind
CutRightmostSeparator(t, st, size) ==
    LET end0 == st + size
        half == st + (size \div 2)
        para_break == RFind(t, <<"\n", "\n">>, st, end0)
        found == { i \in DOMAIN Separators : RFind(t, Separators[i], half, end0) > st }
        sep == Separators[CHOOSE i \in found : \A j \in found :
                            RFind(t, Separators[j], half, end0) <=
                            RFind(t, Separators[i], half, end0)]
        space == RFind(t, <<" ">>, half, end0)
    IN IF ~ (end0 < Len(t)) THEN [end |-> end0, tier |-> "none"]
       ELSE IF para_break > half THEN [end |-> para_break + 2, tier |-> "paragraph"]
       ELSE IF found # {}
       THEN [end |-> RFind(t, sep, half, end0) + Len(sep), tier |-> "sentence"]
       ELSE IF space > st THEN [end |-> space + 1, tier |-> "word"]
       ELSE [end |-> end0, tier |-> "size"]

\* a cut whose sentence and word search runs over the whole window
CutWholeWindow(t, st, size) ==
    LET end0 == st + size
        para_break == RFind(t, <<"\n", "\n">>, st, end0)
        found == { i \in DOMAIN Separators : RFind(t, Separators[i], st, end0) > st }
        sep == Separators[CHOOSE i \in found : \A j \in found : i <= j]
        space == RFind(t, <<" ">>, st, end0)
    IN IF ~ (end0 < Len(t)) THEN [end |-> end0, tier |-> "none"]
       ELSE IF para_break > st + (size \div 2)
       THEN [end |-> para_break + 2, tier |-> "paragraph"]
       ELSE IF found # {}
       THEN [end |-> RFind(t, sep, st, end0) + Len(sep), tier |-> "sentence"]
       ELSE IF space > st THEN [end |-> space + 1, tier |-> "word"]
       ELSE [end |-> end0, tier |-> "size"]

\* the end of the window that starts at st, and the tier that set it
Cut(t, st, size) ==
    LET end0 == st + size
        half == st + (size \div 2)
        para_break == RFind(t, <<"\n", "\n">>, st, end0)
        found == { i \in DOMAIN Separators : RFind(t, Separators[i], half, end0) > st }
        sep == Separators[CHOOSE i \in found : \A j \in found : i <= j]
        space == RFind(t, <<" ">>, half, end0)
    IN IF ~ (end0 < Len(t)) THEN [end |-> end0, tier |-> "none"]
       ELSE IF para_break > half THEN [end |-> para_break + 2, tier |-> "paragraph"]
       ELSE IF found # {}
       THEN [end |-> RFind(t, sep, half, end0) + Len(sep), tier |-> "sentence"]
       ELSE IF space > st THEN [end |-> space + 1, tier |-> "word"]
       ELSE [end |-> end0, tier |-> "size"]

\* chunks after text[start:end] is appended as it is, if it is not blank
EmitUnstripped(cs, t, st, end) ==
    IF Strip(Slice(t, st, end)) # <<>> THEN Append(cs, Slice(t, st, end)) ELSE cs

\* chunks after text[start:end].strip() is appended if it is not empty
Emit(cs, t, st, end) ==
    LET chunk == Strip(Slice(t, st, end))
    IN IF chunk # <<>> THEN Append(cs, chunk) ELSE cs

\* a next start that adds the overlap instead of taking it back
NextStartSkips(st, end, overlap) == end + overlap

\* a next start that takes the overlap back with no look at progress
NextStartUnguarded(st, end, overlap) == end - overlap

\* backend: new_start = end - chunk_overlap, or end if that makes no progress
NextStart(st, end, overlap) ==
    LET new_start == end - overlap
    IN IF new_start <= st THEN end ELSE new_start

\* the guards before the loop: nothing for a blank text, the stripped text
\* alone if it fits chunk_size
ChunkCall ==
    /\ pc = "call"
    /\ LET stripped == Strip(text)
       IN IF stripped = <<>>
          THEN /\ pc' = "done"
               /\ UNCHANGED <<text, chunks>>
          ELSE /\ text' = stripped
               /\ chunks' = IF Len(stripped) <= chunk_size THEN <<stripped>> ELSE <<>>
               /\ pc' = IF Len(stripped) <= chunk_size THEN "done" ELSE "loop"
    /\ UNCHANGED <<variant, input, chunk_size, chunk_overlap, start, windows>>
    /\ UNCHANGED storeVars
    /\ UNCHANGED pipelineVars

\* one turn of the loop of backend/app/services/chunker.py
ChunkTurn ==
    /\ pc = "loop"
    /\ variant = "backend"
    /\ start < Len(text)
    /\ LET c == Cut(text, start, chunk_size)
       IN /\ chunks' = Emit(chunks, text, start, c.end)
          /\ windows' = Append(windows, [start |-> start, end |-> c.end, tier |-> c.tier])
          /\ start' = NextStart(start, c.end, chunk_overlap)
    /\ UNCHANGED <<variant, input, text, chunk_size, chunk_overlap, pc>>
    /\ UNCHANGED storeVars
    /\ UNCHANGED pipelineVars

\* one turn of the loop of app/services/chunker.py: start = end - overlap,
\* then "if start <= chunks[-1] if chunks else 0", which compares an int
\* with a str (TypeError) when chunks is not empty and is 0, false, when it is
ChunkTurnApp ==
    /\ pc = "loop"
    /\ variant = "app"
    /\ start < Len(text)
    /\ LET c == Cut(text, start, chunk_size)
       IN /\ chunks' = Emit(chunks, text, start, c.end)
          /\ windows' = Append(windows, [start |-> start, end |-> c.end, tier |-> c.tier])
          /\ start' = c.end - chunk_overlap
          /\ pc' = IF Emit(chunks, text, start, c.end) # <<>> THEN "raised" ELSE pc
    /\ UNCHANGED <<variant, input, text, chunk_size, chunk_overlap>>
    /\ UNCHANGED storeVars
    /\ UNCHANGED pipelineVars

\* while start < len(text) is false: return chunks
ChunkReturn ==
    /\ pc = "loop"
    /\ start >= Len(text)
    /\ pc' = "done"
    /\ UNCHANGED <<variant, input, text, chunk_size, chunk_overlap, start, chunks,
                   windows>>
    /\ UNCHANGED storeVars
    /\ UNCHANGED pipelineVars

\* a call chunk_text(text, chunk_size, chunk_overlap) of either chunker
InitChunk ==
    /\ EmptyStore
    /\ variant \in {"backend", "app"}
    /\ \E c \in ChunkCalls : input = c[1] /\ chunk_size = c[2]
    /\ text = input
    /\ chunk_overlap \in 0..MaxOverlap
    /\ start = 0
    /\ chunks = <<>>
    /\ windows = <<>>
    /\ pc = "call"
    /\ NoPipeline

NextChunk ==
    \/ ChunkCall
    \/ ChunkTurn
    \/ ChunkTurnApp
    \/ ChunkReturn

SpecChunk == InitChunk /\ [][NextChunk]_vars

(* ---------------------------- chunk_document --------------------------- *)

\* most pages of a document
MaxPages == 4

\* the texts of a page: empty, blank, of one chunk, of several chunks
PageTexts ==
    { <<>>, <<" ">>, <<"a">>, <<"a", " ", "a", "a">>, <<"a", "a", "a", "a">> }

\* doc.pages: ParsedPage(text, page_number), numbered from 1
Docs ==
    UNION { { [i \in 1..n |-> [text |-> texts[i], page_number |-> i]] :
                texts \in [1..n -> PageTexts] } : n \in 0..MaxPages }

\* doc_id is any str: plain ones, and ones that end as a chunk_id does
DocIds ==
    { <<"d">>, <<"e">>,
      <<"d", "_", "c", "h", "u", "n", "k", "_", "1">>,
      <<"d", "_", "c", "h", "u", "n", "k", "_">> }

\* the chunk_size and chunk_overlap chunk_document is called with
DocSizes == 1..2

DocOverlaps == 0..1

Digits == <<"0", "1", "2", "3", "4", "5", "6", "7", "8", "9">>

\* str(n) of an int n >= 0, as the f-string formats chunk_index
RECURSIVE Decimal(_)
Decimal(n) ==
    IF n < 10 THEN <<Digits[n + 1]>>
    ELSE Decimal(n \div 10) \o <<Digits[(n % 10) + 1]>>

\* f"{doc_id}_chunk_{chunk_index}"
ChunkId(id, chunk_index) ==
    id \o <<"_", "c", "h", "u", "n", "k", "_">> \o Decimal(chunk_index)

\* the loop of chunk_text from start st on, with the chunks cs made so far
RECURSIVE ChunkLoop(_, _, _, _, _)
ChunkLoop(t, size, overlap, st, cs) ==
    IF st >= Len(t) THEN cs
    ELSE LET c == Cut(t, st, size)
         IN ChunkLoop(t, size, overlap, NextStart(st, c.end, overlap),
                      Emit(cs, t, st, c.end))

\* chunk_text(t, size, overlap) of backend/app/services/chunker.py
ChunkText(t, size, overlap) ==
    LET stripped == Strip(t)
    IN IF stripped = <<>> THEN <<>>
       ELSE IF Len(stripped) <= size THEN <<stripped>>
       ELSE ChunkLoop(stripped, size, overlap, 0, <<>>)

\* the body of "for text in text_chunks": a Chunk is appended under the
\* running chunk_index, which goes up by one. extract_all_metadata finds no
\* standard in a text over Chars.
AppendChunk(st, id, page, t) ==
    [all_chunks |->
        Append(st.all_chunks,
               [text |-> t,
                metadata |-> [doc_id |-> id,
                              chunk_id |-> ChunkId(id, st.chunk_index),
                              page_number |-> page.page_number,
                              chunk_index |-> st.chunk_index,
                              standards_referenced |-> <<>>]]),
     chunk_index |-> st.chunk_index + 1]

\* for text in text_chunks, from index i on
RECURSIVE ChunkPage(_, _, _, _, _)
ChunkPage(st, id, page, text_chunks, i) ==
    IF i > Len(text_chunks) THEN st
    ELSE ChunkPage(AppendChunk(st, id, page, text_chunks[i]), id, page,
                   text_chunks, i + 1)

\* a page loop that starts chunk_index again on every page
PageStepRestartsIndex(st, id, page, size, overlap) ==
    IF Strip(page.text) = <<>> THEN st
    ELSE ChunkPage([st EXCEPT !.chunk_index = 0], id, page,
                   ChunkText(page.text, size, overlap), 1)

\* the body of "for page in doc.pages": a blank page is skipped
PageStep(st, id, page, size, overlap) ==
    IF Strip(page.text) = <<>> THEN st
    ELSE ChunkPage(st, id, page, ChunkText(page.text, size, overlap), 1)

\* for page in doc.pages, from page p on
RECURSIVE ChunkPages(_, _, _, _, _, _)
ChunkPages(st, pages, id, size, overlap, p) ==
    IF p > Len(pages) THEN st
    ELSE ChunkPages(PageStep(st, id, pages[p], size, overlap), pages, id,
                    size, overlap, p + 1)

\* what chunk_document(doc, doc_id, chunk_size, chunk_overlap) returns
ChunkDocumentResult(pages, id, size, overlap) ==
    ChunkPages([all_chunks |-> <<>>, chunk_index |-> 0], pages, id, size,
               overlap, 1).all_chunks

\* the call chunk_document(doc, doc_id, chunk_size, chunk_overlap)
ChunkDocument ==
    /\ doc_pc = "call"
    /\ all_chunks' = ChunkDocumentResult(doc, doc_id, chunk_size, chunk_overlap)
    /\ doc_pc' = "done"
    /\ UNCHANGED <<doc, doc_id>>
    /\ UNCHANGED <<storeVars, chunkVars, extractVars, uploadVars>>

\* a call of chunk_document about to be made
InitDoc ==
    /\ EmptyStore
    /\ variant = "backend"
    /\ input = <<>>
    /\ text = <<>>
    /\ chunk_size \in DocSizes
    /\ chunk_overlap \in DocOverlaps
    /\ start = 0
    /\ chunks = <<>>
    /\ windows = <<>>
    /\ pc = "idle"
    /\ doc \in Docs
    /\ doc_id \in DocIds
    /\ all_chunks = <<>>
    /\ doc_pc = "call"
    /\ NoExtraction
    /\ NoUploads

NextDoc == ChunkDocument

SpecDoc == InitDoc /\ [][NextDoc]_vars

(* ------------------------ services on the store ----------------------- *)

\* most chunks of a batch handed to index_chunks
MaxChunks == 2

\* the readings of datetime.utcnow() a call may get
Times == {1, 2}

\* most uploads of a run
MaxUploads == 2

\* str(uuid.uuid4()) at the n-th call: a value no other call returns
Uuid4(n) == <<"u">> \o Decimal(n)

\* the doc_ids a caller may name: the ones upload_document has made or may make
ServiceDocIds == { Uuid4(n) : n \in 1..MaxUploads }

\* the texts of the chunks: one that names no standard, one that names one
ServiceTexts == { "plain", "ISO 10993" }

\* detect_standards(t) on these texts
DetectStandards(t) == IF t = "ISO 10993" THEN <<"ISO 10993">> ELSE <<>>

\* chunk i of document d as chunk_document builds it from the text t
ServiceChunk(d, i, t) ==
    [text |-> t,
     metadata |-> [doc_id |-> d, chunk_id |-> ChunkId(d, i), page_number |-> 1,
                   chunk_index |-> i,
                   standards_referenced |-> DetectStandards(t)]]

\* the texts of the chunks chunk_document makes of an uploaded file
ChunkTexts == UNION { [1..n -> ServiceTexts] : n \in 0..MaxChunks }

\* the chunks chunk_document returns for these texts under the doc_id d:
\* chunk_index 0, 1, ... and chunk_id ChunkId(d, chunk_index)
ChunksOf(d, texts) == [i \in DOMAIN texts |-> ServiceChunk(d, i - 1, texts[i])]

\* the vector the embedding provider gives a text
Embedding(t) == IF t = "ISO 10993" THEN <<0, 1>> ELSE <<1, 0>>

\* what get_embeddings(documents) may do: return a vector per text, return
\* one vector less, raise
ProviderAnswers(texts, mayFail) ==
    { [raised |-> FALSE, vectors |-> [i \in DOMAIN texts |-> Embedding(texts[i])]] } \cup
    (IF mayFail
     THEN { [raised |-> TRUE, vectors |-> <<>>],
            [raised |-> FALSE,
             vectors |-> [i \in 1..(Len(texts) - 1) |-> Embedding(texts[i])]] }
     ELSE {})

\* the metadata dict index_chunks builds for a chunk
ChunkMeta(chunk, uploaded_at) ==
    [doc_id |-> Scalar(chunk.metadata.doc_id),
     chunk_id |-> Scalar(chunk.metadata.chunk_id),
     page_number |-> Scalar(IF chunk.metadata.page_number = 0 THEN -1
                            ELSE chunk.metadata.page_number),
     chunk_index |-> Scalar(chunk.metadata.chunk_index),
     uploaded_at |-> Scalar(uploaded_at),
     standards_referenced |-> ListOf(chunk.metadata.standards_referenced)]

\* index_chunks(chunks, ...) on the store st, the clock reading now and the
\* provider answering emb: the store after it, what it raised or returned,
\* and whether add reached _save
IndexChunksResult(st, batch, now, emb) ==
    IF batch = <<>>
    THEN [documents |-> st.documents, embeddings |-> st.embeddings,
          metadatas |-> st.metadatas, raised |-> "", returned |-> 0,
          saved |-> FALSE]
    ELSE IF emb.raised
    THEN [documents |-> st.documents, embeddings |-> st.embeddings,
          metadatas |-> st.metadatas, raised |-> "EmbeddingError",
          returned |-> 0, saved |-> FALSE]
    ELSE LET args == [ids |-> [i \in DOMAIN batch |-> batch[i].metadata.chunk_id],
                      documents |-> [i \in DOMAIN batch |-> batch[i].text],
                      embeddings |-> emb.vectors,
                      metadatas |-> [i \in DOMAIN batch |-> ChunkMeta(batch[i], now)]]
             r == AddLoop([documents |-> st.documents, embeddings |-> st.embeddings,
                           metadatas |-> st.metadatas, raised |-> ""], args, 1)
         IN [documents |-> r.documents, embeddings |-> r.embeddings,
             metadatas |-> r.metadatas, raised |-> r.raised,
             returned |-> IF r.raised = "" THEN Len(batch) ELSE 0,
             saved |-> (r.raised = "")]

\* an upload that takes its doc_id from the first call of uuid4 every time
UploadDocIdRepeats(n) == Uuid4(1)

\* doc_id = str(uuid.uuid4()) of the upload after n earlier ones
UploadDocId(n) == Uuid4(n + 1)

\* the readings datetime.utcnow() may give: none before a stored uploaded_at
ClockReadings(m) ==
    { t \in Times : \A i \in DOMAIN m : m[i].v["uploaded_at"].items[1] <= t }

\* the handler upload_document on a file chunk_document cuts into texts:
\* a new doc_id, HTTP 400 if there is no chunk, else index_chunks, whose
\* exception the handler turns into HTTP 500
UploadDocument(texts, now, emb) ==
    LET id == UploadDocId(issued)
        batch == ChunksOf(id, texts)
        r == IndexChunksResult([documents |-> documents, embeddings |-> embeddings,
                                metadatas |-> metadatas], batch, now, emb)
        newDisk == IF r.saved
                   THEN SaveDisk("none", r.documents, r.embeddings, r.metadatas, disk)
                   ELSE disk
    IN /\ issued < MaxUploads
       /\ issued' = issued + 1
       /\ documents' = r.documents
       /\ embeddings' = r.embeddings
       /\ metadatas' = r.metadatas
       /\ disk' = newDisk
       /\ faults' = IF emb.raised \/ Len(emb.vectors) # Len(batch)
                    THEN faults + 1 ELSE faults
       /\ last' = [NoCall EXCEPT
                     !.op = "upload_document",
                     !.doc = id,
                     !.raised = IF batch = <<>> THEN "HTTP 400" ELSE r.raised,
                     !.count = r.returned,
                     !.changed = (<<r.documents, r.embeddings, r.metadatas>> # store),
                     !.diskChanged = (newDisk # disk)]
       /\ UNCHANGED removed
       /\ UNCHANGED <<chunkVars, docVars, extractVars>>

\* where={"doc_id": d}
OfDocument(d) == Where([doc_id |-> Scalar(d)])

\* get_document_chunk_count(d): len(store.get(where={"doc_id": d})["ids"])
DocumentChunkCount(m, d) == Len(GetIds(m, OfDocument(d)))

\* document_exists(d)
DocumentExistsResult(m, d) == DocumentChunkCount(m, d) > 0

\* delete_document that counts the chunks of every document
DeleteDocumentCountsAll(st, d) ==
    LET to_delete == Candidates(st.metadatas, OfDocument(d))
        r == DeleteLoop([documents |-> st.documents, embeddings |-> st.embeddings,
                         metadatas |-> st.metadatas, raised |-> ""], to_delete, 1)
    IN IF Len(st.metadatas) = 0
       THEN [documents |-> st.documents, embeddings |-> st.embeddings,
             metadatas |-> st.metadatas, raised |-> "", returned |-> 0,
             saved |-> FALSE, deleted |-> <<>>]
       ELSE [documents |-> r.documents, embeddings |-> r.embeddings,
             metadatas |-> r.metadatas, raised |-> r.raised,
             returned |-> IF r.raised = "" THEN Len(st.metadatas) ELSE 0,
             saved |-> (r.raised = ""), deleted |-> to_delete]

\* delete_document(d) on the store st: the count is taken first, and
\* store.delete runs only if it is not 0
DeleteDocumentResult(st, d) ==
    LET chunk_count == DocumentChunkCount(st.metadatas, d)
        to_delete == Candidates(st.metadatas, OfDocument(d))
        r == DeleteLoop([documents |-> st.documents, embeddings |-> st.embeddings,
                         metadatas |-> st.metadatas, raised |-> ""], to_delete, 1)
    IN IF chunk_count = 0
       THEN [documents |-> st.documents, embeddings |-> st.embeddings,
             metadatas |-> st.metadatas, raised |-> "", returned |-> 0,
             saved |-> FALSE, deleted |-> <<>>]
       ELSE [documents |-> r.documents, embeddings |-> r.embeddings,
             metadatas |-> r.metadatas, raised |-> r.raised,
             returned |-> IF r.raised = "" THEN chunk_count ELSE 0,
             saved |-> (r.raised = ""), deleted |-> to_delete]

\* delete_document(d), called by op
DeleteDocumentBy(op, d) ==
    LET r == DeleteDocumentResult([documents |-> documents, embeddings |-> embeddings,
                                   metadatas |-> metadatas], d)
        newDisk == IF r.saved
                   THEN SaveDisk("none", r.documents, r.embeddings, r.metadatas, disk)
                   ELSE disk
    IN /\ documents' = r.documents
       /\ embeddings' = r.embeddings
       /\ metadatas' = r.metadatas
       /\ disk' = newDisk
       /\ removed' = removed \cup (Keys(metadatas) \ Keys(r.metadatas))
       /\ last' = [NoCall EXCEPT
                     !.op = op,
                     !.doc = d,
                     !.raised = r.raised,
                     !.count = r.returned,
                     !.changed = (<<r.documents, r.embeddings, r.metadatas>> # store),
                     !.diskChanged = (newDisk # disk)]
       /\ UNCHANGED <<faults, issued>>
       /\ UNCHANGED <<chunkVars, docVars, extractVars>>

\* the call delete_document(d)
DeleteDocument(d) == DeleteDocumentBy("delete_document", d)

\* the handler delete_document_endpoint(d): HTTP 404 unless
\* document_exists(d), else delete_document(d)
DeleteDocumentEndpoint(d) ==
    IF DocumentExistsResult(metadatas, d)
    THEN DeleteDocumentBy("delete_document_endpoint", d)
    ELSE /\ last' = [NoCall EXCEPT !.op = "delete_document_endpoint", !.doc = d,
                                   !.raised = "HTTP 404"]
         /\ UNCHANGED <<documents, embeddings, metadatas, disk, faults>>
         /\ UNCHANGED <<chunkVars, docVars, extractVars, uploadVars>>

\* the field of a metadata dict, a scalar
Field(metadata, key) == metadata[key].items[1]

\* the first loop of list_documents: doc_info after one more metadata dict,
\* in the order the doc_ids were first met; a dict with no doc_id, or an
\* empty one, is passed over
GroupOne(doc_info, metadata) ==
    IF "doc_id" \notin DOMAIN metadata \/ Field(metadata, "doc_id") = <<>>
    THEN doc_info
    ELSE LET d == Field(metadata, "doc_id")
             seen == IF d \in Keys(doc_info) THEN Lookup(doc_info, d)
                     ELSE [uploaded_at |-> Field(metadata, "uploaded_at"),
                           chunk_count |-> 0, standards |-> {}]
             stds == IF "standards_referenced" \in DOMAIN metadata
                        /\ metadata["standards_referenced"].isList
                     THEN metadata["standards_referenced"].items ELSE <<>>
         IN PutOrdered(doc_info, d,
                       [seen EXCEPT !.chunk_count = @ + 1,
                                    !.standards = @ \cup { stds[i] : i \in DOMAIN stds }])

\* for metadata in results["metadatas"], from index i on
RECURSIVE GroupByDoc(_, _, _)
GroupByDoc(doc_info, m, i) ==
    IF i > Len(m) THEN doc_info
    ELSE GroupByDoc(GroupOne(doc_info, m[i].v), m, i + 1)

\* where list.sort(reverse=True) puts x: before every element it is greater
\* than, after its equals
InsertByUpload(sorted, x) ==
    LET later == {i \in DOMAIN sorted : x.uploaded_at > sorted[i].uploaded_at}
        p == IF later = {} THEN Len(sorted) + 1
             ELSE CHOOSE i \in later : \A j \in later : i <= j
    IN SubSeq(sorted, 1, p - 1) \o <<x>> \o SubSeq(sorted, p, Len(sorted))

\* documents.sort(key=lambda x: x.uploaded_at, reverse=True): stable
RECURSIVE SortByUpload(_)
SortByUpload(seq) ==
    IF seq = <<>> THEN <<>>
    ELSE InsertByUpload(SortByUpload(SubSeq(seq, 1, Len(seq) - 1)), seq[Len(seq)])

\* list_documents(): one DocumentMetadata per doc_id, newest upload first
ListDocumentsResult(m) ==
    LET doc_info == GroupByDoc(<<>>, m, 1)
    IN SortByUpload([i \in DOMAIN doc_info |->
                        [doc_id |-> doc_info[i].k,
                         chunks_indexed |-> doc_info[i].v.chunk_count,
                         uploaded_at |-> doc_info[i].v.uploaded_at,
                         standards_detected |-> doc_info[i].v.standards]])

\* the call list_documents()
ListDocuments ==
    /\ last' = [NoCall EXCEPT !.op = "list_documents",
                              !.listed = ListDocumentsResult(metadatas)]
    /\ UNCHANGED <<documents, embeddings, metadatas, disk, faults>>
    /\ UNCHANGED <<chunkVars, docVars, extractVars, uploadVars>>

\* the call document_exists(d)
DocumentExists(d) ==
    /\ last' = [NoCall EXCEPT !.op = "document_exists", !.doc = d,
                              !.exists = DocumentExistsResult(metadatas, d)]
    /\ UNCHANGED <<documents, embeddings, metadatas, disk, faults>>
    /\ UNCHANGED <<chunkVars, docVars, extractVars, uploadVars>>

\* the standards a caller of query_chunks may name; "" is no standard
Standards == { "", "ISO 10993" }

\* the doc_ids a caller of query_chunks may name; "" is none
QueryDocIds == { <<>>, Uuid4(1) }

\* get_embedding(query) of the queries of the model
ServiceQueryVectors == { <<1, 0>> }

\* the filter query_chunks builds: doc_id only, None if it is empty
QueryWhere(d) == IF d = <<>> THEN NoFilter ELSE OfDocument(d)

\* the standards_referenced of the stored chunk id
StandardsOf(m, id) ==
    LET l == Lookup(m, id)["standards_referenced"].items
    IN { l[i] : i \in DOMAIN l }

\* query_chunks(query, doc_id=d, standard=standard, top_k=top_k): the store is
\* asked for top_k results under the doc_id filter, and the results that do
\* not name the standard are dropped afterwards
QueryChunksResult(q, d, standard, top_k) ==
    LET r == QueryResult(q, top_k, QueryWhere(d))
    IN [r EXCEPT !.top = SelectSeq(@, LAMBDA e :
                            standard = "" \/ standard \in StandardsOf(metadatas, e.id))]

\* the call query_chunks(query, doc_id, standard, top_k)
QueryChunks(q, d, standard, top_k) ==
    LET r == QueryChunksResult(q, d, standard, top_k)
    IN /\ last' = [NoCall EXCEPT !.op = "query_chunks", !.doc = d, !.q = q,
                                 !.standard = standard, !.k = top_k,
                                 !.raised = r.raised,
                                 !.ids = [i \in DOMAIN r.top |-> r.top[i].id],
                                 !.dists = [i \in DOMAIN r.top |-> r.top[i].dist]]
       /\ UNCHANGED <<documents, embeddings, metadatas, disk, faults>>
       /\ UNCHANGED <<chunkVars, docVars, extractVars, uploadVars>>

\* the last call was a read of a service
ServiceObserved == last.op \in {"list_documents", "document_exists", "query_chunks"}

\* the services in any order; a read is the last call of a run, as in
\* NextReads
NextService ==
    \/ /\ ~ ServiceObserved
       /\ \E texts \in ChunkTexts, now \in ClockReadings(metadatas) :
             \E emb \in ProviderAnswers(texts, faults < MaxFaults) :
                UploadDocument(texts, now, emb)
    \/ /\ ~ ServiceObserved
       /\ \E d \in ServiceDocIds : DeleteDocument(d)
    \/ /\ ~ ServiceObserved
       /\ \E d \in ServiceDocIds : DeleteDocumentEndpoint(d)
    \/ /\ ~ ServiceObserved
       /\ ListDocuments
    \/ /\ ~ ServiceObserved
       /\ \E d \in ServiceDocIds : DocumentExists(d)
    \/ /\ ~ ServiceObserved
       /\ \E q \in ServiceQueryVectors, d \in QueryDocIds, standard \in Standards,
             top_k \in 1..MaxK :
             QueryChunks(q, d, standard, top_k)

SpecService == Init /\ [][NextService]_vars

(* ------------------------- metadata extractor -------------------------- *)

\* most words of a text handed to an extractor
MaxIdWords == 14

Families == {"requirement", "test_case", "risk"}

\* ID_PATTERNS: \bPREFIX[-_]?\d+(?:\.\d+)*\b if dotted, \bPREFIX[-_]?\d+\b
\* if not, matched with re.IGNORECASE
IdPatterns(f) ==
    CASE f = "requirement" ->
           << [prefix |-> <<"R", "E", "Q">>, dotted |-> TRUE],
              [prefix |-> <<"S", "R", "S">>, dotted |-> TRUE],
              [prefix |-> <<"S", "Y", "S">>, dotted |-> TRUE],
              [prefix |-> <<"U", "R">>, dotted |-> FALSE],
              [prefix |-> <<"F", "R">>, dotted |-> FALSE] >>
      [] f = "test_case" ->
           << [prefix |-> <<"T", "C">>, dotted |-> TRUE],
              [prefix |-> <<"T", "E", "S", "T">>, dotted |-> TRUE],
              [prefix |-> <<"V", "T">>, dotted |-> FALSE],
              [prefix |-> <<"S", "V", "T">>, dotted |-> FALSE],
              [prefix |-> <<"U", "T">>, dotted |-> FALSE] >>
      [] f = "risk" ->
           << [prefix |-> <<"R", "I", "S", "K">>, dotted |-> TRUE],
              [prefix |-> <<"H", "A", "Z">>, dotted |-> TRUE],
              [prefix |-> <<"F", "M", "E", "A">>, dotted |-> FALSE],
              [prefix |-> <<"R", "M">>, dotted |-> FALSE] >>

\* [:10]
IdLimit == 10

UpperLetters ==
    <<"A", "B", "C", "D", "E", "F", "G", "H", "I", "J", "K", "L", "M",
      "N", "O", "P", "Q", "R", "S", "T", "U", "V", "W", "X", "Y", "Z">>

LowerLetters ==
    <<"a", "b", "c", "d", "e", "f", "g", "h", "i", "j", "k", "l", "m",
      "n", "o", "p", "q", "r", "s", "t", "u", "v", "w", "x", "y", "z">>

\* the characters of the texts in the order of their code points
CodeOrder == <<" ", "-", ".">> \o Digits \o UpperLetters \o <<"_">> \o LowerLetters

\* ord(c)
Ord(c) == CHOOSE i \in DOMAIN CodeOrder : CodeOrder[i] = c

IsDigit(c) == \E i \in DOMAIN Digits : Digits[i] = c

IsLower(c) == \E i \in DOMAIN LowerLetters : LowerLetters[i] = c

IsUpper(c) == \E i \in DOMAIN UpperLetters : UpperLetters[i] = c

\* c.upper() and c.lower() of one character
UpperChar(c) ==
    IF IsLower(c) THEN UpperLetters[CHOOSE i \in DOMAIN LowerLetters : LowerLetters[i] = c]
    ELSE c

LowerChar(c) ==
    IF IsUpper(c) THEN LowerLetters[CHOOSE i \in DOMAIN UpperLetters : UpperLetters[i] = c]
    ELSE c

\* match.upper()
UpperStr(m) == [i \in DOMAIN m |-> UpperChar(m[i])]

LowerStr(m) == [i \in DOMAIN m |-> LowerChar(m[i])]

\* a < b on str: by code points, a proper prefix first
StrLess(a, b) ==
    \E k \in 1..(Min(Len(a), Len(b)) + 1) :
        /\ \A j \in 1..(k - 1) : a[j] = b[j]
        /\ \/ k > Len(a) /\ k <= Len(b)
           \/ k <= Len(a) /\ k <= Len(b) /\ Ord(a[k]) < Ord(b[k])

\* sorted(list(detected))
RECURSIVE SortStrings(_)
SortStrings(S) ==
    IF S = {} THEN <<>>
    ELSE LET least == CHOOSE x \in S : \A y \in S \ {x} : StrLess(x, y)
         IN <<least>> \o SortStrings(S \ {least})

\* \w of a regular expression
IsWordChar(c) == IsDigit(c) \/ IsLower(c) \/ IsUpper(c) \/ c = "_"

\* \b at offset i of t: a word character on one side only
Boundary(t, i) ==
    (i >= 1 /\ i <= Len(t) /\ IsWordChar(t[i])) #
    (i + 1 <= Len(t) /\ IsWordChar(t[i + 1]))

\* the offset after the digits that start at offset p: where \d+ ends
DigitsEnd(t, p) ==
    CHOOSE q \in p..Len(t) :
        /\ \A j \in (p + 1)..q : IsDigit(t[j])
        /\ q = Len(t) \/ ~ IsDigit(t[q + 1])

\* the offsets at which (?:\.\d+)* may end from offset q on
RECURSIVE NumberEnds(_, _)
NumberEnds(t, q) ==
    {q} \cup (IF q < Len(t) /\ t[q + 1] = "." /\ DigitsEnd(t, q + 1) > q + 1
              THEN NumberEnds(t, DigitsEnd(t, q + 1))
              ELSE {})

\* where a match of the pattern that starts at offset i ends, or -1: the
\* greedy parts give back until \b holds
MatchEnd(t, i, pat) ==
    LET afterPrefix == i + Len(pat.prefix)
        afterSep == IF afterPrefix < Len(t) /\ t[afterPrefix + 1] \in {"-", "_"}
                    THEN afterPrefix + 1 ELSE afterPrefix
        q0 == DigitsEnd(t, afterSep)
        ends == IF pat.dotted THEN NumberEnds(t, q0) ELSE {q0}
        ok == { e \in ends : Boundary(t, e) }
    IN IF \/ ~ Boundary(t, i)
          \/ afterPrefix > Len(t)
          \/ UpperStr(SubSeq(t, i + 1, afterPrefix)) # pat.prefix
          \/ q0 = afterSep
          \/ ok = {}
       THEN -1
       ELSE CHOOSE e \in ok : \A x \in ok : x <= e

\* re.findall(pattern, t, re.IGNORECASE) from offset i on: the matches, left
\* to right, none overlapping another
RECURSIVE FindAll(_, _, _)
FindAll(t, pat, i) ==
    IF i >= Len(t) THEN {}
    ELSE LET e == MatchEnd(t, i, pat)
         IN IF e = -1 THEN FindAll(t, pat, i + 1)
            ELSE {SubSeq(t, i + 1, e)} \cup FindAll(t, pat, e)

\* the matches of all patterns of the family in t
Matches(f, t) ==
    UNION { FindAll(t, IdPatterns(f)[i], 0) : i \in DOMAIN IdPatterns(f) }

\* an extractor that keeps the matches as they are written
DetectIdsKeepsCase(f, t) ==
    IF t = <<>> THEN <<>>
    ELSE Prefix(SortStrings(Matches(f, t)), IdLimit)

\* detect_requirement_ids, detect_test_case_ids, detect_risk_ids
DetectIds(f, t) ==
    IF t = <<>> THEN <<>>
    ELSE Prefix(SortStrings({ UpperStr(m) : m \in Matches(f, t) }), IdLimit)

\* what stands around the prefix in the words of the texts: a separator and
\* a number, dotted numbers, letters glued to either end
WordShapes ==
    << [p |-> 1, lower |-> FALSE, head |-> <<>>, tail |-> <<"-", "1">>],
       [p |-> 1, lower |-> TRUE,  head |-> <<>>, tail |-> <<"-", "1">>],
       [p |-> 2, lower |-> FALSE, head |-> <<>>, tail |-> <<"_", "2">>],
       [p |-> 1, lower |-> FALSE, head |-> <<>>, tail |-> <<"3", ".", "1">>],
       [p |-> 4, lower |-> FALSE, head |-> <<>>, tail |-> <<"3", ".", "1">>],
       [p |-> 1, lower |-> FALSE, head |-> <<"x">>, tail |-> <<"4">>],
       [p |-> 3, lower |-> TRUE,  head |-> <<>>, tail |-> <<"5">>],
       [p |-> 1, lower |-> FALSE, head |-> <<>>, tail |-> <<"1", ".", "5", "a">>],
       [p |-> 2, lower |-> FALSE, head |-> <<>>, tail |-> <<"1", "4", "x">>],
       [p |-> 4, lower |-> TRUE,  head |-> <<>>, tail |-> <<"6">>],
       [p |-> 5, lower |-> FALSE, head |-> <<>>, tail |-> <<"-", "7">>],
       [p |-> 1, lower |-> FALSE, head |-> <<>>, tail |-> <<"1", "0">>],
       [p |-> 1, lower |-> FALSE, head |-> <<>>, tail |-> <<"9">>],
       [p |-> 2, lower |-> FALSE, head |-> <<>>, tail |-> <<"8">>],
       [p |-> 3, lower |-> FALSE, head |-> <<>>, tail |-> <<"7", ".", "2", ".", "1">>],
       [p |-> 1, lower |-> FALSE, head |-> <<>>, tail |-> <<"2">>] >>

\* word k of the family f
IdWord(f, k) ==
    LET w == WordShapes[k]
        pats == IdPatterns(f)
        prefix == pats[((w.p - 1) % Len(pats)) + 1].prefix
    IN w.head \o (IF w.lower THEN LowerStr(prefix) ELSE prefix) \o w.tail

\* the words numbered a, a + step, ..., b of the family f, a blank between
\* two words
RECURSIVE IdText(_, _, _, _)
IdText(f, a, b, step) ==
    IF a = b THEN IdWord(f, a)
    ELSE IdWord(f, a) \o <<" ">> \o IdText(f, a + step, b, step)

\* the runs of at most MaxIdWords words: first and last word
WordRuns ==
    { w \in (DOMAIN WordShapes) \X (DOMAIN WordShapes) :
        w[1] <= w[2] /\ w[2] < w[1] + MaxIdWords }

\* the texts handed to the extractors: no text, and the runs of words of a
\* family, in either order
ExtractTexts ==
    { <<>> } \cup
    { IdText(f, w[1], w[2], 1) : f \in Families, w \in WordRuns } \cup
    { IdText(f, w[2], w[1], -1) : f \in Families, w \in WordRuns }

\* the call of the extractor of the family on source
Detect ==
    /\ ext_pc = "call"
    /\ detected' = DetectIds(family, source)
    /\ ext_pc' = "done"
    /\ UNCHANGED <<family, source>>
    /\ UNCHANGED <<storeVars, chunkVars, docVars, uploadVars>>

\* a call of an extractor about to be made
InitExtract ==
    /\ EmptyStore
    /\ NoChunking
    /\ NoDocument
    /\ NoUploads
    /\ family \in Families
    /\ source \in ExtractTexts
    /\ detected = <<>>
    /\ ext_pc = "call"

NextExtract == Detect

SpecExtract == InitExtract /\ [][NextExtract]_vars

(* ------------------------------- claims -------------------------------- *)

Range(seq) == { seq[i] : i \in DOMAIN seq }

\* the ids held with text, embedding and metadata
StoredIds == (DOMAIN documents) \cap (DOMAIN embeddings) \cap Keys(metadatas)

\* C1: after any sequence of add and delete calls, failing ones included,
\* documents, embeddings and metadatas have the same key set.
C1_SameKeySets ==
    /\ DOMAIN documents = DOMAIN embeddings
    /\ DOMAIN embeddings = Keys(metadatas)

\* C2: delete(filter) removes from all three mappings exactly the records
\* whose metadata matches the filter, leaves every other entry of the three
\* mappings as it was, and returns the number of records removed.
C2_DeleteExact ==
    [][ (last'.op = "delete") =>
          LET hit == { id \in Keys(metadatas) :
                         MatchesFilter(Lookup(metadatas, id), last'.where.cond) }
          IN /\ DOMAIN documents' = (DOMAIN documents) \ hit
             /\ DOMAIN embeddings' = (DOMAIN embeddings) \ hit
             /\ Keys(metadatas') = Keys(metadatas) \ hit
             /\ \A id \in DOMAIN documents' : documents'[id] = documents[id]
             /\ \A id \in DOMAIN embeddings' : embeddings'[id] = embeddings[id]
             /\ \A id \in Keys(metadatas') :
                   Lookup(metadatas', id) = Lookup(metadatas, id)
             /\ (last'.raised = "") => (last'.count = Cardinality(hit)) ]_vars

\* C2 witness: a delete has returned after removing some records and
\* leaving others.
C2_Witness ==
    /\ last.op = "delete"
    /\ last.raised = ""
    /\ last.count > 0
    /\ metadatas # <<>>

\* C3: get(filter) returns the ids of exactly the stored records whose
\* metadata satisfies the filter, all stored records when there is no filter,
\* and changes nothing of the store or its snapshot.
C3_GetExact ==
    [][ (last'.op = "get") =>
          /\ UNCHANGED <<documents, embeddings, metadatas, disk>>
          /\ Range(last'.ids) =
                { id \in StoredIds : Selected(Lookup(metadatas, id), last'.where) }
          /\ Len(last'.ids) = Cardinality(Range(last'.ids))
          /\ (~ last'.where.given) => (Range(last'.ids) = StoredIds) ]_vars

\* C3 witness: a get with a filter has returned some of the stored records
\* and not all of them.
C3_Witness ==
    /\ last.op = "get"
    /\ last.where.given
    /\ last.ids # <<>>
    /\ Range(last.ids) # StoredIds

\* the match as the claim C4 words it: per key, a list that contains the
\* value, or a field equal to the value
MatchAsClaimed(metadata, cond) ==
    \A key \in DOMAIN cond :
        /\ key \in DOMAIN metadata
        /\ \/ /\ metadata[key].isList
              /\ \E i \in DOMAIN metadata[key].items :
                    Scalar(metadata[key].items[i]) = cond[key]
           \/ metadata[key] = cond[key]

\* the match as amended: per key, a list field must contain the value, any
\* other field must equal it
MatchAsAmended(metadata, cond) ==
    \A key \in DOMAIN cond :
        /\ key \in DOMAIN metadata
        /\ metadata[key].isList =>
              \E i \in DOMAIN metadata[key].items :
                 Scalar(metadata[key].items[i]) = cond[key]
        /\ (~ metadata[key].isList) => (metadata[key] = cond[key])

ExampleStore ==
    /\ Keys(metadatas) = {"a", "b", "c"}
    /\ DOMAIN embeddings = {"a", "b", "c"}
    /\ embeddings["a"] = <<1, 0>>
    /\ embeddings["b"] = <<0, 1>>
    /\ embeddings["c"] = <<1, 0>>

\* C5: query(q, k, filter), k >= 0, returns min(k, number of candidates)
\* records that all satisfy the filter, in order of non-decreasing cosine
\* distance to q, and no candidate left out is strictly nearer than a
\* returned one; on the example store, q = [1,0] and k = 2 give {a, c}.
C5_QueryNearest ==
    (last.op = "query" /\ last.raised = "") =>
        LET cand == { id \in Keys(metadatas) :
                        Selected(Lookup(metadatas, id), last.where) }
        IN /\ Len(last.ids) = Min(last.k, Cardinality(cand))
           /\ Len(last.dists) = Len(last.ids)
           /\ Cardinality(Range(last.ids)) = Len(last.ids)
           /\ \A i \in DOMAIN last.ids :
                 /\ last.ids[i] \in cand
                 /\ last.dists[i] = Dist(last.q, embeddings[last.ids[i]])
           /\ \A i, j \in DOMAIN last.dists :
                 (i < j) => ~ DistLess(last.dists[j], last.dists[i])
           /\ \A c \in cand \ Range(last.ids) : \A i \in DOMAIN last.dists :
                 ~ DistLess(Dist(last.q, embeddings[c]), last.dists[i])
           /\ (ExampleStore /\ last.q = <<1, 0>> /\ last.k = 2 /\ ~ last.where.given)
                 => (Range(last.ids) = {"a", "c"})

\* C5 witness: the query of the example has returned, b stored before c.
C5_Witness ==
    /\ last.op = "query"
    /\ last.raised = ""
    /\ ExampleStore
    /\ [i \in DOMAIN metadatas |-> metadatas[i].k] = <<"a", "b", "c">>
    /\ last.q = <<1, 0>>
    /\ last.k = 2
    /\ ~ last.where.given
    /\ Range(last.ids) = {"a", "c"}

\* C6: a store constructed on the path of a store whose last add or delete
\* saved its state holds the same three mappings as that store.
C6_RoundTrip ==
    [][ (last'.op = "construct" /\ last'.afterSave) =>
          /\ documents' = documents
          /\ embeddings' = embeddings
          /\ metadatas' = metadatas ]_vars

\* C6 witness: a store has been constructed on the snapshot of a populated
\* store whose last call saved.
C6_Witness ==
    /\ last.op = "construct"
    /\ last.afterSave
    /\ Len(metadatas) >= 2
    /\ DOMAIN documents # {}

\* C7: when add or delete has returned normally and no write failed, the
\* snapshot on disk is the dump of the three mappings in memory.
C7_SavedOnReturn ==
    (last.op \in {"add", "delete"} /\ last.raised = "" /\ last.fault = "none") =>
        disk = Dump(documents, embeddings, metadatas)

\* C7 witness: an add or a delete that changed a populated store has
\* returned with its write done.
C7_Witness ==
    /\ last.op \in {"add", "delete"}
    /\ last.raised = ""
    /\ last.fault = "none"
    /\ last.changed
    /\ metadatas # <<>>

\* C8: a persistence failure during add or delete, of whatever kind
\* (creating the directory, opening the file, serializing), is not raised
\* to the caller and the mutation in memory stays applied.
C8_FailureNotRaised ==
    (last.op \in {"add", "delete"} /\ last.fault # "none") => (last.raised = "")

\* C9: a store constructed on a missing or corrupt snapshot (undecodable,
\* no mapping, or a mapping lacking one of the three sub-mappings) starts
\* with all three mappings empty.
C9_CorruptStartsEmpty ==
    (last.op = "construct" /\ (disk.kind # "map" \/ disk.keys # SnapshotKeys)) =>
        /\ documents = EmptyDict
        /\ embeddings = EmptyDict
        /\ metadatas = <<>>

\* C10: add with lists of unequal lengths is rejected with an error and
\* leaves the three mappings and the snapshot on disk as they were.
C10_MalformedRejected ==
    (last.op = "add" /\ last.malformed) =>
        /\ last.raised # ""
        /\ ~ last.changed
        /\ ~ last.diskChanged

\* the index of the last occurrence of id in the ids of a batch
LastIndex(ids, id) == CHOOSE i \in DOMAIN ids :
                         ids[i] = id /\ \A j \in DOMAIN ids : ids[j] = id => j <= i

\* what an add of a batch of equal lengths does to the records: every id of
\* the batch holds the batch's (last) values for it and has one entry, no id
\* but the batch's new ones appears, and every other record is as it was,
\* the entries of metadatas at their places
AddReplaces(args) ==
    LET batchIds == Range(args.ids)
    IN /\ \A id \in batchIds :
            LET i == LastIndex(args.ids, id)
            IN /\ id \in DOMAIN documents' /\ documents'[id] = args.documents[i]
               /\ id \in DOMAIN embeddings' /\ embeddings'[id] = args.embeddings[i]
               /\ Cardinality({ j \in DOMAIN metadatas' : metadatas'[j].k = id }) = 1
               /\ Lookup(metadatas', id) = args.metadatas[i]
       /\ DOMAIN documents' = DOMAIN documents \cup batchIds
       /\ DOMAIN embeddings' = DOMAIN embeddings \cup batchIds
       /\ Keys(metadatas') = Keys(metadatas) \cup batchIds
       /\ Len(metadatas') = Len(metadatas) + Cardinality(batchIds \ Keys(metadatas))
       /\ \A id \in DOMAIN documents \ batchIds : documents'[id] = documents[id]
       /\ \A id \in DOMAIN embeddings \ batchIds : embeddings'[id] = embeddings[id]
       /\ \A j \in DOMAIN metadatas :
             /\ metadatas'[j].k = metadatas[j].k
             /\ (metadatas[j].k \notin batchIds) => (metadatas'[j] = metadatas[j])

\* C11: add does not reject an id that is already stored: for every add of
\* a batch of equal lengths, the stored ids of the batch get the batch's
\* text, embedding and metadata, the number of records grows only by the
\* ids that were not stored, and every other record is left as it was.
C11_AddOverwrites ==
    [][ \A c \in WellFormedInputs(PersistRecords) \X SaveFaults :
          Add(c[1], c[2]) => AddReplaces(c[1]) ]_vars

\* C11 witness: an add whose write could not open the file has replaced
\* record a: the snapshot still holds a as it was stored (t1), memory holds
\* the new text, embedding and metadata, and no record more than before.
C11_Witness ==
    /\ last.op = "add"
    /\ last.fault = "open"
    /\ disk.kind = "map"
    /\ "a" \in DOMAIN disk.documents
    /\ disk.documents["a"] = "t1"
    /\ "a" \in StoredIds
    /\ documents["a"] = "t4"
    /\ embeddings["a"] = <<2, 0>>
    /\ Lookup(metadatas, "a") = MZ
    /\ Len(metadatas) = Len(disk.metadatas)

\* no record held with metadata satisfies the filter (an empty store included)
NoneSatisfies(where) ==
    \A i \in DOMAIN metadatas :
        where.given /\ ~ MatchAsAmended(metadatas[i].v, where.cond)

\* C12: get and query never fail on an empty store or on a filter that no
\* record satisfies: query returns an empty result list and get an empty id
\* list, for every query vector, k and filter.
C12_EmptyNeverFails ==
    (last.op \in {"get", "query"} /\ NoneSatisfies(last.where)) =>
        /\ last.raised = ""
        /\ last.ids = <<>>
        /\ last.dists = <<>>

\* C12 witness: a query for k >= 1 results on a store that holds records,
\* none of which satisfies the filter, has returned the empty list.
C12_Witness ==
    /\ last.op = "query"
    /\ last.k >= 1
    /\ Len(metadatas) >= 2
    /\ DOMAIN embeddings # {}
    /\ NoneSatisfies(last.where)
    /\ last.raised = ""
    /\ last.ids = <<>>

\* C13: add and delete are mutually exclusive with each other and with get
\* and query, so that no get or query observes a state in which a record is
\* present in one of the three mappings and absent from another. The request
\* handlers are coroutines that call the store without awaiting inside the
\* call, so the calls of SpecReads, taken in any order, are their
\* interleavings; the property is read off the state a get or query ran in.
C13_NoHalfApplied ==
    Observed =>
        /\ DOMAIN documents = DOMAIN embeddings
        /\ DOMAIN embeddings = Keys(metadatas)

\* C14: the write of a mutation belongs to the mutation: every snapshot on
\* disk is the state reached by completed mutations, which hold each id in
\* all three mappings, never a part of a mutation in progress, and after a
\* mutation that returned with its write done the snapshot is the state in
\* memory.
C14_SnapshotOfCompleted ==
    /\ (disk.kind = "map") =>
          /\ DOMAIN disk.documents = DOMAIN disk.embeddings
          /\ DOMAIN disk.embeddings = Keys(disk.metadatas)
    /\ (last.op \in {"add", "delete"} /\ last.raised = "" /\ last.fault = "none") =>
          disk = Dump(documents, embeddings, metadatas)

\* t is whitespace only (or empty)
Blank(t) == \A i \in DOMAIN t : t[i] \in Whitespace

\* c is t without its leading and trailing whitespace
IsTrimOf(c, t) ==
    \E i, j \in DOMAIN t :
        /\ c = SubSeq(t, i, j)
        /\ t[i] \notin Whitespace
        /\ t[j] \notin Whitespace
        /\ \A k \in DOMAIN t : (k < i \/ k > j) => t[k] \in Whitespace

\* C15: for every text t that is not blank with len(t) <= max_size,
\* chunk(t, max_size, overlap) returns the one-element sequence [trim(t)];
\* empty or whitespace-only input returns the empty sequence.
C15_ShortText ==
    (pc = "done") =>
        /\ Blank(input) => (chunks = <<>>)
        /\ (~ Blank(input) /\ Len(input) <= chunk_size) =>
              (Len(chunks) = 1 /\ IsTrimOf(chunks[1], input))

\* C15 witness: a text of at most max_size characters with whitespace on
\* both sides has been returned as one chunk, shorter than the text.
C15_Witness ==
    /\ pc = "done"
    /\ variant = "backend"
    /\ input # <<>>
    /\ Len(input) <= chunk_size
    /\ input[1] \in Whitespace
    /\ input[Len(input)] \in Whitespace
    /\ Len(chunks) = 1
    /\ Len(chunks[1]) < Len(input)

\* the offsets of text that are no whitespace
Solid == { i \in 0..(Len(text) - 1) : text[i + 1] \notin Whitespace }

\* the offsets of window w that its chunk keeps: from the first to the last
\* offset of the window that holds no whitespace
Kept(w) ==
    LET inside == { i \in Solid : w.start <= i /\ i < w.end }
    IN { i \in w.start..(w.end - 1) :
           \E a, b \in inside : a <= i /\ i <= b }

\* offset i of the stripped text lies in an emitted chunk: the one chunk of
\* a text that fits, or the chunk of one of the windows
InSomeChunk(i) ==
    \/ windows = <<>> /\ chunks = <<text>>
    \/ \E k \in DOMAIN windows : i \in Kept(windows[k])

\* C16 (as claimed): for every text, max_size >= 1 and 0 <= overlap <
\* max_size, every character of the trimmed input appears in at least one
\* emitted chunk.
C16_EveryCharacter ==
    (pc = "done" /\ variant = "backend" /\ chunk_overlap < chunk_size) =>
        \A i \in 0..(Len(Strip(input)) - 1) : InSomeChunk(i)

\* C16 (amended): for every text, max_size >= 1 and 0 <= overlap <
\* max_size, every character of the trimmed input that is no whitespace
\* appears in at least one emitted chunk.
C16_EverySolidCharacter ==
    (pc = "done" /\ variant = "backend" /\ chunk_overlap < chunk_size) =>
        \A i \in 0..(Len(Strip(input)) - 1) :
            (Strip(input)[i + 1] \notin Whitespace) => InSomeChunk(i)

\* C16 witness: a text cut into several windows has been chunked; a
\* whitespace character of it lies in no chunk, every other one in some.
C16_Witness ==
    /\ pc = "done"
    /\ variant = "backend"
    /\ chunk_overlap < chunk_size
    /\ Len(windows) >= 2
    /\ \E i \in 0..(Len(text) - 1) : i \notin Solid /\ ~ InSomeChunk(i)
    /\ \A i \in Solid : InSomeChunk(i)

CeilDiv(n, d) == (n + d - 1) \div d

\* C17 (as claimed): for every text t and every max_size > overlap >= 0, the
\* loop runs at most ceil(len(t) / (max_size - overlap)) + 1 iterations.
C17_IterationBound ==
    (variant = "backend" /\ chunk_overlap < chunk_size) =>
        Len(windows) <= CeilDiv(Len(input), chunk_size - chunk_overlap) + 1

\* the least a turn of the loop moves start: a window cut at a boundary is
\* at least chunk_size div 2 + 1 long, and start moves by one at least
LeastAdvance == Max(1, chunk_size \div 2 + 1 - chunk_overlap)

\* C17 (amended): for every text t and every max_size > overlap >= 0, the
\* loop runs at most ceil(len(trim(t)) / max(1, max_size div 2 + 1 - overlap))
\* iterations, and none when the trimmed text fits max_size.
C17_IterationBoundAmended ==
    (variant = "backend" /\ chunk_overlap < chunk_size) =>
        /\ Len(windows) <= CeilDiv(Len(Strip(input)), LeastAdvance)
        /\ (Len(Strip(input)) <= chunk_size) => (windows = <<>>)

\* C17 witness: a call has returned after more turns of the loop than
\* ceil(len(t) / (max_size - overlap)) + 1.
C17_Witness ==
    /\ pc = "done"
    /\ variant = "backend"
    /\ chunk_overlap < chunk_size
    /\ Len(windows) > CeilDiv(Len(input), chunk_size - chunk_overlap) + 1
    /\ \E k \in DOMAIN windows : windows[k].tier = "word"

\* C18: for every text, max_size >= 1 and overlap >= 0 (overlap >= max_size
\* included), in both chunkers, the window start strictly increases on each
\* turn of the loop and the call ends by returning with start >= len(text).
C18_Progress ==
    (pc \in {"loop", "done", "raised"}) =>
        /\ \A i, j \in DOMAIN windows :
              (i < j) => (windows[i].start < windows[j].start)
        /\ (windows # <<>>) => (start > windows[Len(windows)].start)
        /\ pc # "raised"
        /\ (pc = "done" /\ windows # <<>>) => (start >= Len(text))

\* C19: chunk_text of either chunker never raises for a string input with
\* max_size >= 1 and overlap >= 0, inputs longer than max_size included.
C19_NeverRaises == pc # "raised"

\* the windows that hold a character that is no whitespace, in order: the
\* windows whose chunk is emitted
EmittedWindows ==
    SelectSeq(windows, LAMBDA w : \E i \in Solid : w.start <= i /\ i < w.end)

\* the offset in text at which the chunk of window w starts
ChunkOffset(w) ==
    CHOOSE i \in Solid :
        /\ w.start <= i /\ i < w.end
        /\ \A j \in Solid : (w.start <= j /\ j < w.end) => i <= j

\* s occurs in t as a run of consecutive characters
IsSubstring(s, t) ==
    \E o \in 0..(Len(t) - Len(s)) : SubSeq(t, o + 1, o + Len(s)) = s

\* every chunk is non-empty, free of leading and trailing whitespace, at
\* most max_size long and a substring of the input
ChunksWellFormed ==
    \A k \in DOMAIN chunks :
        LET c == chunks[k]
        IN /\ c # <<>>
           /\ c[1] \notin Whitespace
           /\ c[Len(c)] \notin Whitespace
           /\ Len(c) <= chunk_size
           /\ IsSubstring(c, input)

\* the k-th chunk is what text holds at the offset of the k-th emitted
\* window (the one chunk of a text that fits starts at offset 0)
ChunksAtOffsets ==
    IF windows = <<>> THEN chunks \in {<<>>, <<Strip(input)>>}
    ELSE /\ Len(chunks) = Len(EmittedWindows)
         /\ \A k \in DOMAIN chunks :
               LET o == ChunkOffset(EmittedWindows[k])
               IN /\ o + Len(chunks[k]) <= Len(text)
                  /\ chunks[k] = SubSeq(text, o + 1, o + Len(chunks[k]))

\* C20 (as claimed): every chunk emitted by chunk_text is non-empty, has no
\* leading or trailing whitespace, is a contiguous substring of the input,
\* has at most max_size characters, and the chunks are emitted in increasing
\* order of their start offset.
C20_ChunksIncreasing ==
    (variant = "backend" /\ pc \in {"loop", "done"}) =>
        /\ ChunksWellFormed
        /\ ChunksAtOffsets
        /\ \A j, k \in DOMAIN EmittedWindows :
              (j < k) => (ChunkOffset(EmittedWindows[j]) < ChunkOffset(EmittedWindows[k]))

\* C20 (amended): as claimed, but the chunks are emitted in non-decreasing
\* order of their start offset: two chunks may start at the same offset.
C20_ChunksNonDecreasing ==
    (variant = "backend" /\ pc \in {"loop", "done"}) =>
        /\ ChunksWellFormed
        /\ ChunksAtOffsets
        /\ \A j, k \in DOMAIN EmittedWindows :
              (j < k) => (ChunkOffset(EmittedWindows[j]) <= ChunkOffset(EmittedWindows[k]))

\* C20 witness: a call has returned chunks of which two, one after the
\* other, start at the same offset, the second window starting in the
\* whitespace the first one was stripped of.
C20_Witness ==
    /\ pc = "done"
    /\ variant = "backend"
    /\ ChunksWellFormed
    /\ ChunksAtOffsets
    /\ \E k \in DOMAIN EmittedWindows :
          /\ k > 1
          /\ ChunkOffset(EmittedWindows[k - 1]) = ChunkOffset(EmittedWindows[k])
          /\ EmittedWindows[k - 1].start < EmittedWindows[k].start
          /\ EmittedWindows[k - 1].end < Len(text)

\* window w does not reach the end of the text
Inner(w) == w.start + chunk_size < Len(text)

\* C25: for every window that does not reach the end of the text, the cut
\* position satisfies start + max_size/2 <= end <= start + max_size,
\* whichever tier produced it.
C25_CutInSecondHalf ==
    (variant = "backend") =>
        \A k \in DOMAIN windows :
            Inner(windows[k]) =>
                /\ 2 * windows[k].end >= 2 * windows[k].start + chunk_size
                /\ windows[k].end <= windows[k].start + chunk_size

\* C25 witness: a call has returned that cut one window short at a
\* sentence end and another at a word break.
C25_Witness ==
    /\ pc = "done"
    /\ variant = "backend"
    /\ \E j, k \in DOMAIN windows :
          /\ Inner(windows[j]) /\ Inner(windows[k])
          /\ windows[j].tier = "sentence"
          /\ windows[j].end < windows[j].start + chunk_size
          /\ windows[k].tier = "word"
          /\ windows[k].end < windows[k].start + chunk_size

\* the offsets at which a paragraph break lies whole inside window w, at or
\* past the middle of the window
ParagraphBreaks(w) ==
    { p \in w.start..(w.start + chunk_size - 2) :
        /\ 2 * p >= 2 * w.start + chunk_size
        /\ text[p + 1] = "\n"
        /\ text[p + 2] = "\n" }

\* C26: whenever a window that does not reach the end of the text contains
\* a paragraph break at an offset >= start + max_size/2 (the midpoint
\* included), the cut is placed just after the last such break, whatever
\* sentence separators or spaces the window holds.
C26_ParagraphFirst ==
    (variant = "backend") =>
        \A k \in DOMAIN windows :
            (Inner(windows[k]) /\ ParagraphBreaks(windows[k]) # {}) =>
                \E p \in ParagraphBreaks(windows[k]) :
                    /\ \A q \in ParagraphBreaks(windows[k]) : q <= p
                    /\ windows[k].end = p + 2

\* the offsets at which sub lies whole inside the second half of window w
InSecondHalf(w, sub) ==
    { i \in (w.start + (chunk_size \div 2))..(w.start + chunk_size - Len(sub)) :
        SubSeq(text, i + 1, i + Len(sub)) = sub }

Last(S) == CHOOSE i \in S : \A j \in S : j <= i

\* the cut of a window in which the paragraph tier finds nothing: after the
\* last occurrence of the first kind of sentence end that occurs in the
\* second half, else after the last space there, else at start + max_size
SentenceOrWordCut(w) ==
    LET kinds == { j \in DOMAIN Separators : InSecondHalf(w, Separators[j]) # {} }
        first == CHOOSE j \in kinds : \A i \in kinds : j <= i
    IN IF kinds # {} THEN Last(InSecondHalf(w, Separators[first])) + 2
       ELSE IF InSecondHalf(w, <<" ">>) # {} THEN Last(InSecondHalf(w, <<" ">>)) + 1
       ELSE w.start + chunk_size

\* C27: when no paragraph break qualifies, the cut is placed just after the
\* last occurrence, in the second half of the window, of the first
\* separator kind in the order ". ", ".\n", "! ", "!\n", "? ", "?\n" that
\* occurs there, even if a later kind occurs further right; just after the
\* last space in the second half when no sentence separator occurs there;
\* and otherwise exactly at start + max_size.
C27_SentenceThenWord ==
    (variant = "backend") =>
        \A k \in DOMAIN windows :
            (/\ Inner(windows[k])
             /\ \A p \in ParagraphBreaks(windows[k]) :
                   p <= windows[k].start + (chunk_size \div 2)) =>
                windows[k].end = SentenceOrWordCut(windows[k])

\* C27 witness: a window has been cut after a ". " although a ".\n" lies
\* further right in its second half.
C27_Witness ==
    /\ variant = "backend"
    /\ \E k \in DOMAIN windows :
          /\ Inner(windows[k])
          /\ ParagraphBreaks(windows[k]) = {}
          /\ InSecondHalf(windows[k], <<".", " ">>) # {}
          /\ windows[k].end = Last(InSecondHalf(windows[k], <<".", " ">>)) + 2
          /\ \E i \in InSecondHalf(windows[k], <<".", "\n">>) : i >= windows[k].end

\* window w holds a character that is no whitespace: its chunk is emitted
Emits(w) == \E i \in Solid : w.start <= i /\ i < w.end

\* C28: once chunk_text has emitted a chunk whose window reaches the end of
\* the text (start + max_size >= len(text)), it emits no further chunk.
C28_NoChunkAfterEnd ==
    (variant = "backend") =>
        \A j, k \in DOMAIN windows :
            (j < k /\ ~ Inner(windows[j]) /\ Emits(windows[j])) => ~ Emits(windows[k])

(* ---- C21 -------------------------------------------------------------- *)

\* the chunks of the pages from page p on, in page order
RECURSIVE TextsFrom(_, _)
TextsFrom(pages, p) ==
    IF p > Len(pages) THEN <<>>
    ELSE ChunkText(pages[p].text, chunk_size, chunk_overlap) \o TextsFrom(pages, p + 1)

\* the greatest chunk_index a document of the model can reach
MaxIndex == MaxPages * 4

\* C21: chunk_document returns the chunks of its pages in page order under
\* chunk_index 0, 1, ..., n-1 (no gap, no repeat, a blank page takes no
\* index), each with chunk_id "{doc_id}_chunk_{chunk_index}"; the chunk_ids
\* of one document are pairwise distinct, and none of them is a chunk_id of a
\* chunk of a document with another doc_id.
C21_ChunkIdentity ==
    doc_pc = "done" =>
        /\ [i \in DOMAIN all_chunks |-> all_chunks[i].text] = TextsFrom(doc, 1)
        /\ \A i \in DOMAIN all_chunks :
              /\ all_chunks[i].metadata.chunk_index = i - 1
              /\ all_chunks[i].metadata.doc_id = doc_id
              /\ all_chunks[i].metadata.chunk_id =
                    doc_id \o <<"_", "c", "h", "u", "n", "k", "_">> \o Decimal(i - 1)
        /\ \A i, j \in DOMAIN all_chunks :
              i # j => all_chunks[i].metadata.chunk_id # all_chunks[j].metadata.chunk_id
        /\ \A other \in DocIds \ {doc_id} : \A i \in DOMAIN all_chunks, j \in 0..MaxIndex :
              all_chunks[i].metadata.chunk_id #
                 other \o <<"_", "c", "h", "u", "n", "k", "_">> \o Decimal(j)

\* a document with a blank page between two pages of text, cut into more
\* than ten chunks under a doc_id that reads like a chunk_id
C21_Witness ==
    /\ doc_pc = "done"
    /\ Len(doc) = 4
    /\ Strip(doc[2].text) = <<>>
    /\ Len(all_chunks) > 10
    /\ doc_id = <<"d", "_", "c", "h", "u", "n", "k", "_", "1">>
    /\ all_chunks[Len(all_chunks)].metadata.page_number = 4

(* ---- C22 -------------------------------------------------------------- *)

\* C22: in every sequence of uploads and deletions of documents, a chunk_id
\* that delete_document has taken out of the store is never a key of the
\* store again.
C22_NeverReused ==
    \A id \in removed :
        /\ id \notin DOMAIN documents
        /\ id \notin DOMAIN embeddings
        /\ id \notin Keys(metadatas)

\* an upload that indexed chunks after a document was deleted
C22_Witness ==
    /\ removed # {}
    /\ last.op = "upload_document"
    /\ last.count > 0
    /\ last.changed

(* ---- C24 -------------------------------------------------------------- *)

\* the stored chunks a query under the doc_id d and the standard s is about
Referencing(d, s) ==
    { metadatas[i].k : i \in { j \in DOMAIN metadatas :
                                  /\ Selected(metadatas[j].v, QueryWhere(d))
                                  /\ s \in StandardsOf(metadatas, metadatas[j].k) } }

\* C24: query_chunks with a standard answers with the top_k nearest of the
\* chunks that pass the other filters and reference the standard: top_k of
\* them if there are that many, all of them otherwise, none farther than a
\* chunk left out.
C24_StandardSelectsCandidates ==
    (last.op = "query_chunks" /\ last.standard # "" /\ last.raised = "") =>
        LET among == Referencing(last.doc, last.standard)
        IN /\ Range(last.ids) \subseteq among
           /\ Len(last.ids) = Min(last.k, Cardinality(among))
           /\ \A id \in among \ Range(last.ids) : \A i \in DOMAIN last.ids :
                 ~ DistLess(Dist(last.q, embeddings[id]), last.dists[i])

(* ---- C29 -------------------------------------------------------------- *)

\* the records of the store under the doc_id d
RecordsOf(m, d) == { i \in DOMAIN m : m[i].v["doc_id"].items[1] = d }

\* what the claim says of one call of index_chunks, made by an upload
IndexAllOrNothing(emb, texts) ==
    /\ (emb.raised \/ Len(emb.vectors) < Len(texts)) =>
          /\ documents' = documents
          /\ embeddings' = embeddings
          /\ metadatas' = metadatas
          /\ disk' = disk
    /\ last'.count > 0 =>
          /\ Len(metadatas') = Len(metadatas) + last'.count
          /\ Cardinality(RecordsOf(metadatas', last'.doc)) = last'.count
          /\ \A i, j \in RecordsOf(metadatas', last'.doc) :
                metadatas'[i].v["uploaded_at"] = metadatas'[j].v["uploaded_at"]

\* C29: index_chunks is all or nothing: when the provider raises or returns
\* fewer vectors than chunks the three mappings and the snapshot are as
\* before the call, and when it returns n > 0 the store holds n more records,
\* all of the new doc_id and all with one uploaded_at.
C29_AllOrNothing ==
    [][\A texts \in ChunkTexts, now \in Times :
          \A emb \in ProviderAnswers(texts, TRUE) :
             UploadDocument(texts, now, emb) => IndexAllOrNothing(emb, texts)]_vars

(* ---- C30 -------------------------------------------------------------- *)

\* the doc_ids of the stored records
StoredDocIds(m) == { m[i].v["doc_id"].items[1] : i \in DOMAIN m }

\* the listing has one entry per stored doc_id, with the number of its records
ListingExact(m) ==
    LET listed == ListDocumentsResult(m)
    IN /\ { listed[i].doc_id : i \in DOMAIN listed } = StoredDocIds(m)
       /\ Len(listed) = Cardinality(StoredDocIds(m))
       /\ \A i \in DOMAIN listed :
             listed[i].chunks_indexed = Cardinality(RecordsOf(m, listed[i].doc_id))

\* what the claim says of one call delete_document(d)
DeleteDocumentExact(d) ==
    /\ last'.count = Cardinality(RecordsOf(metadatas, d))
    /\ Len(metadatas') = Len(metadatas) - last'.count
    /\ metadatas' = SelectSeq(metadatas, LAMBDA e : e.v["doc_id"].items[1] # d)
    /\ ~ DocumentExistsResult(metadatas', d)
    /\ \A i \in DOMAIN ListDocumentsResult(metadatas') :
          ListDocumentsResult(metadatas')[i].doc_id # d

\* C30: delete_document(d) returns the number of records of doc_id d it
\* removed, after it document_exists(d) is false and list_documents has no
\* entry for d; and list_documents always has exactly one entry per stored
\* doc_id, whose chunks_indexed is the number of stored records of that doc_id.
C30_DeleteAndListExact ==
    [][/\ \A d \in ServiceDocIds : DeleteDocument(d) => DeleteDocumentExact(d)
       /\ \A d \in ServiceDocIds :
             (DeleteDocumentEndpoint(d) /\ last'.raised = "") => DeleteDocumentExact(d)
       /\ ListingExact(metadatas)
       /\ ListingExact(metadatas')
       /\ (last'.op = "list_documents" => last'.listed = ListDocumentsResult(metadatas'))
       /\ (last'.op = "document_exists" =>
              last'.exists = (RecordsOf(metadatas', last'.doc) # {}))]_vars

\* a document of two chunks deleted from a store that holds another document
C30_Witness ==
    /\ last.op = "delete_document"
    /\ last.count = 2
    /\ Len(metadatas) > 0

(* ---- C23 -------------------------------------------------------------- *)

\* the upper-cased matches of the family in the text
UpperMatches == { UpperStr(m) : m \in Matches(family, source) }

\* C23: the result of an extractor is the first 10 elements, in ascending
\* order, of the set of the upper-cased matches: at most 10 entries, each an
\* upper-cased match equal to its own upper case, strictly ascending (so no
\* entry twice), as many as there are matches up to 10, and no match left
\* out is less than an entry.
C23_FirstTenSorted ==
    ext_pc = "done" =>
        /\ Len(detected) <= 10
        /\ Len(detected) = Min(10, Cardinality(UpperMatches))
        /\ \A i \in DOMAIN detected :
              /\ detected[i] \in UpperMatches
              /\ detected[i] = UpperStr(detected[i])
        /\ \A i, j \in DOMAIN detected : i < j => StrLess(detected[i], detected[j])
        /\ \A m \in UpperMatches \ Range(detected) : \A i \in DOMAIN detected :
              StrLess(detected[i], m)

\* a text with more than 10 different ids, one of them written in both cases
C23_Witness ==
    /\ ext_pc = "done"
    /\ Cardinality(UpperMatches) > 10
    /\ Cardinality(Matches(family, source)) > Cardinality(UpperMatches)
    /\ Len(detected) = 10

====
